---------------------------- MODULE Spec2Model ----------------------------
(***************************************************************************)
(* DifferentialLab solving engine: the expression sandbox                  *)
(* (solver/equation_parser.py), the input validator (solver/validators.py) *)
(* and the solver pipeline (pipeline.py).                                  *)
(*                                                                         *)
(* An expression text is a sequence of lexical chunks separated by blanks. *)
(* The chunks are                                                          *)
(*   "y0" "y1"   the subscripts  y[0]  y[1]                                *)
(*   "x" "n" "k" "w" "sin"   the names x, n, k, the letter omega, sin      *)
(*   "0" "1"     number literals                                           *)
(*   "ysort"     the call  y.sort()                                        *)
(*   "ytofile"   the call  y.tofile("f")                                   *)
(*   "ycls"      the attribute  y.__class__                                *)
(*   "+" "or" "and" ","   the operators                                    *)
(*   "lam"       the prefix  lambda:                                       *)
(*   "Q"         a string literal holding one escaped double quote: a      *)
(*               double quote, backslash u0022, a double quote             *)
(*   "TQ"        three double quotes                                       *)
(*   "uw"        the escape sequence backslash u03C9 (omega)               *)
(*   "ws"        a run of blanks                                           *)
(***************************************************************************)
EXTENDS Integers, Sequences, FiniteSets, TLC

VARIABLES
    args,      \* the arguments of the equation_parser call in progress
    pc,        \* position inside that call
    idx,       \* loop index of parse_vector_expression (1-based)
    normd,     \* expression texts after normalize_unicode_escapes, in order
    compiled,  \* texts handed to compile(), in order
    nEval,     \* number of eval() calls made so far
    effects,   \* what the evaluations so far touched: "io", "reflect", "mutate"
    outcome,   \* "none", "callable", "errors", or the name of the exception raised
    errs,      \* the list returned by validate_expression
    imports,   \* number of "from config import ..." statements executed
    call,      \* the last invocation of the returned callable
    vargs,     \* the keyword arguments of the validate_all_inputs call in progress
    vret,      \* that call's state, the exception it raised and the list it returned
    req,       \* the keyword arguments of the run_solver_pipeline call in progress
    ppc,       \* position inside run_solver_pipeline
    plog,      \* the stages run_solver_pipeline has entered, in order
    sol,       \* the solution the solve stage produced
    pout,      \* "none", "SolverResult", or the name of the exception raised
    ode,       \* the solve_ode or solve_multipoint call in progress
    dif,       \* the solve_difference call in progress
    pde,       \* the solve_pde_2d call in progress
    reg,       \* the module state of solver/predefined.py and the equations file
    git        \* the perform_git_pull call in progress and the working copy

eqVars == <<args, pc, idx, normd, compiled, nEval, effects, outcome, errs, imports, call>>

valVars == <<vargs, vret>>

plVars == <<req, ppc, plog, sol, pout>>

slvVars == <<ode, dif, pde, reg, git>>

vars == <<eqVars, valVars, plVars, slvVars>>

(* no solver call in progress, the registry not loaded *)
SlvIdle ==
    /\ ode = [pc |-> "idle"]
    /\ dif = [pc |-> "idle"]
    /\ pde = [pc |-> "idle"]
    /\ reg = [pc |-> "idle"]
    /\ git = [pc |-> "idle"]

-----------------------------------------------------------------------------
(* Bounds *)

MaxLen == 4        \* chunks per expression text
MaxComp == 2       \* components of a vector ODE
MaxOrder == 2      \* order of an equation
MaxVal == 2        \* state entries and x range over 0..MaxVal
MaxCalls == 2      \* invocations of a returned callable

-----------------------------------------------------------------------------
(* Small helpers *)

NoneName == "<None>"

Range(s) == {s[i] : i \in DOMAIN s}

SeqsUpTo(S, n) == UNION {[1..m -> S] : m \in 0..n}

Zeros(n) == [i \in 1..n |-> 0]

-----------------------------------------------------------------------------
(* normalize_unicode_escapes: every escape sequence becomes its character,   *)
(* wherever it stands: inside "Q" it leaves three double quotes, and "uw"   *)
(* becomes the letter omega.                                                *)

NormalizeChunk(t) ==
    CASE t = "Q"  -> "TQ"
      [] t = "uw" -> "w"
      [] OTHER    -> t

normalize_unicode_escapes(text) == [i \in DOMAIN text |-> NormalizeChunk(text[i])]

(* str.strip(): leading and trailing blanks removed *)
RECURSIVE LStrip(_)
LStrip(text) ==
    IF text # <<>> /\ Head(text) = "ws" THEN LStrip(Tail(text)) ELSE text

RECURSIVE RStrip(_)
RStrip(text) ==
    IF text # <<>> /\ text[Len(text)] = "ws"
    THEN RStrip(SubSeq(text, 1, Len(text) - 1)) ELSE text

Strip(text) == RStrip(LStrip(text))

-----------------------------------------------------------------------------
(* ast.parse(expression, mode="eval")                                       *)

(* Tokenizer: a TQ opens a triple-quoted string that runs to the next TQ;   *)
(* a backslash outside a string, a leading blank and an unterminated string *)
(* are syntax errors ("ERR").                                               *)
RECURSIVE LexFrom(_, _, _)
LexFrom(text, i, inStr) ==
    IF i > Len(text) THEN (IF inStr THEN <<"ERR">> ELSE <<>>)
    ELSE LET t == text[i] IN
         IF inStr
         THEN IF t = "TQ" THEN <<"STR">> \o LexFrom(text, i + 1, FALSE)
                          ELSE LexFrom(text, i + 1, TRUE)
         ELSE CASE t = "TQ" -> LexFrom(text, i + 1, TRUE)
                [] t = "Q"  -> <<"STR">> \o LexFrom(text, i + 1, FALSE)
                [] t = "uw" -> <<"ERR">>
                [] t = "ws" -> IF i = 1 THEN <<"ERR">> ELSE LexFrom(text, i + 1, FALSE)
                [] OTHER    -> <<t>> \o LexFrom(text, i + 1, FALSE)

Lex(text) == LexFrom(text, 1, FALSE)

NameAtoms == {"x", "n", "k", "w", "sin"}
Atoms     == NameAtoms \cup {"y0", "y1", "0", "1", "ysort", "ytofile", "ycls"}
BinOps    == {"+", "or", "and"}

(* Grammar:  expr := item ("," item)* [","]    item := "lam" item | disj    *)
(*           disj := conj ("or" conj)*         conj := sum ("and" sum)*     *)
(*           sum  := atom ("+" atom)*          atom := ATOM | STR+          *)
(* It is regular; GramStep is its automaton.                                *)
GramStep(st, t) ==
    CASE st \in {"start", "lam", "comma"} ->
             (CASE t = "lam"   -> "lam"
                [] t \in Atoms -> "atom"
                [] t = "STR"   -> "str"
                [] OTHER       -> "err")
      [] st = "op" ->
             (CASE t \in Atoms -> "atom"
                [] t = "STR"   -> "str"
                [] OTHER       -> "err")
      [] st \in {"atom", "str"} ->
             (CASE t \in BinOps          -> "op"
                [] t = ","               -> "comma"
                [] t = "STR" /\ st = "str" -> "str"
                [] OTHER                 -> "err")
      [] OTHER -> "err"

RECURSIVE GramRun(_, _, _)
GramRun(toks, i, st) ==
    IF i > Len(toks) THEN st ELSE GramRun(toks, i + 1, GramStep(st, toks[i]))

(* The node kinds each chunk contributes to the tree *)
NodeKinds(t) ==
    CASE t \in {"y0", "y1"} -> {"Subscript", "Name", "Constant", "Load"}
      [] t \in NameAtoms    -> {"Name", "Load"}
      [] t \in {"0", "1", "STR"} -> {"Constant"}
      [] t = "ysort"        -> {"Call", "Attribute", "Name", "Load"}
      [] t = "ytofile"      -> {"Call", "Attribute", "Name", "Load", "Constant"}
      [] t = "ycls"         -> {"Attribute", "Name", "Load"}
      [] t = "+"            -> {"BinOp", "Add"}
      [] t = "or"           -> {"BoolOp", "Or"}
      [] t = "and"          -> {"BoolOp", "And"}
      [] t = ","            -> {"Tuple", "Load"}
      [] t = "lam"          -> {"Lambda", "arguments"}
      [] OTHER              -> {}

(* [ok, nodes]: ok = FALSE is a SyntaxError, nodes is what ast.walk visits *)
AstParse(text) ==
    LET toks == Lex(text)
        ok   == /\ "ERR" \notin Range(toks)
                /\ GramRun(toks, 1, "start") \in {"atom", "str", "comma"}
    IN  [ok    |-> ok,
         nodes |-> IF ok THEN {"Expression"} \cup UNION {NodeKinds(toks[i]) : i \in DOMAIN toks}
                         ELSE {}]

-----------------------------------------------------------------------------
(* The sandbox *)

_ALLOWED_NODE_TYPES ==
    {"Module", "Expr", "Expression", "BinOp", "UnaryOp", "Call", "Name", "Constant",
     "Load", "Add", "Sub", "Mult", "Div", "Pow", "USub", "UAdd", "Subscript",
     "Attribute", "FloorDiv", "Mod", "Compare", "IfExp", "BoolOp", "And", "Or",
     "Eq", "NotEq", "Lt", "LtE", "Gt", "GtE", "Tuple", "List"}

NodeAllowed(kind) == kind \in _ALLOWED_NODE_TYPES

(* _validate_ast without its loop over ast.walk *)
ValidateAstSyntaxOnly(expression) ==
    IF ~AstParse(expression).ok THEN "Syntax error in expression" ELSE "ok"

(* "ok", or the message class of the EquationParseError raised *)
_validate_ast(expression) ==
    LET tree == AstParse(expression) IN
    IF ~tree.ok THEN "Syntax error in expression"
    ELSE IF \E node \in tree.nodes : ~NodeAllowed(node)
         THEN "Disallowed construct in expression"
         ELSE "ok"

-----------------------------------------------------------------------------
(* Values an evaluation can produce *)

Num(n)  == [t |-> "num",   n |-> n]
NoneV   == [t |-> "none",  n |-> 0]
FuncV   == [t |-> "func",  n |-> 0]
TypeV   == [t |-> "type",  n |-> 0]
StrV    == [t |-> "str",   n |-> 0]
TupleV  == [t |-> "tuple", n |-> 0]
ArrayV  == [t |-> "array", n |-> 0]   \* the state vector object; its entries live in the heap

Truthy(v) == IF v.t = "num" THEN v.n # 0 ELSE v.t # "none"

(* dict merge {**f, **g}: the right operand wins *)
Merge(f, g) == [key \in DOMAIN f \cup DOMAIN g |-> IF key \in DOMAIN g THEN g[key] ELSE f[key]]

_SAFE_MATH == [name \in {"sin"} |-> FuncV]

(* ndarray.sort(): in place, ascending *)
RECURSIVE Insert(_, _)
Insert(v, s) ==
    IF s = <<>> THEN <<v>>
    ELSE IF v <= Head(s) THEN <<v>> \o s ELSE <<Head(s)>> \o Insert(v, Tail(s))

RECURSIVE Sorted(_)
Sorted(s) == IF s = <<>> THEN <<>> ELSE Insert(Head(s), Sorted(Tail(s)))

(* One atom evaluated in namespace ns with the state vector's entries y.    *)
(* Result: [val, y, fx, err]                                                *)
EvalAtom(t, ns, y) ==
    LET R(v, yy, fx, e) == [val |-> v, y |-> yy, fx |-> fx, err |-> e]
        OnY(f(_)) == IF "y" \notin DOMAIN ns THEN R(NoneV, y, {}, "NameError") ELSE f(ns["y"])
        Sub(i) == LET G(obj) == IF obj.t # "array" THEN R(NoneV, y, {}, "TypeError")
                                ELSE IF i + 1 > Len(y) THEN R(NoneV, y, {}, "IndexError")
                                ELSE R(Num(y[i + 1]), y, {}, "none")
                  IN OnY(G)
        Meth(fx, yy) == LET G(obj) == IF obj.t # "array" THEN R(NoneV, y, {}, "AttributeError")
                                      ELSE R(NoneV, yy, {fx}, "none")
                        IN OnY(G)
        Cls == LET G(obj) == R(TypeV, y, {"reflect"}, "none") IN OnY(G)
    IN  CASE t = "0"       -> R(Num(0), y, {}, "none")
          [] t = "1"       -> R(Num(1), y, {}, "none")
          [] t = "STR"     -> R(StrV, y, {}, "none")
          [] t = "y0"      -> Sub(0)
          [] t = "y1"      -> Sub(1)
          [] t = "ysort"   -> Meth("mutate", Sorted(y))
          [] t = "ytofile" -> Meth("io", y)
          [] t = "ycls"    -> Cls
          [] OTHER         -> IF t \in DOMAIN ns THEN R(ns[t], y, {}, "none")
                              ELSE R(NoneV, y, {}, "NameError")

(* a + b *)
AddV(a, b) ==
    CASE a.t = "num" /\ b.t = "num" -> [val |-> Num(a.n + b.n), err |-> "none"]
      [] a.t = "str" /\ b.t = "str" -> [val |-> StrV, err |-> "none"]
      [] OTHER                      -> [val |-> NoneV, err |-> "TypeError"]

(* eval(compiled, {"__builtins__": {}}, ns): a left-to-right walk of the     *)
(* tokens that keeps Python's evaluation order: the operands of + in turn,  *)
(* "or" stops at the first true operand, "and" at the first false one, a    *)
(* lambda's body is not run, the items of a tuple in turn.  The first       *)
(* exception ends the walk.                                                 *)
EvalInit(y) ==
    [y |-> y, fx |-> {}, err |-> "none",
     sum |-> NoneV, has |-> FALSE, add |-> FALSE,   \* the sum being built
     skip |-> FALSE,  \* rest of the item is not evaluated (lambda body, or after a true operand)
     item |-> NoneV,  \* value of the item when skip
     conj |-> FALSE,  \* rest of the conjunction is not evaluated (after a false operand)
     tuple |-> FALSE]

(* the walk a after an operand evaluated to r *)
Operand(a, r) ==
    IF r.err # "none" THEN [a EXCEPT !.y = r.y, !.fx = a.fx \cup r.fx, !.err = r.err]
    ELSE IF ~a.has
         THEN [a EXCEPT !.y = r.y, !.fx = a.fx \cup r.fx, !.sum = r.val, !.has = TRUE]
    ELSE IF a.add
         THEN [a EXCEPT !.y = r.y, !.fx = a.fx \cup r.fx, !.sum = AddV(a.sum, r.val).val,
                        !.err = AddV(a.sum, r.val).err, !.add = FALSE]
    ELSE [a EXCEPT !.y = r.y, !.fx = a.fx \cup r.fx]   \* adjacent string literals are one constant

EvalTok(a, t, ns) ==
    IF a.err # "none" THEN a
    ELSE CASE t = ","   -> [a EXCEPT !.tuple = TRUE, !.skip = FALSE, !.has = FALSE, !.add = FALSE,
                                     !.conj = FALSE]
           [] a.skip    -> a
           [] t = "lam" -> [a EXCEPT !.skip = TRUE, !.item = FuncV]
           [] t = "or"  -> IF Truthy(a.sum)
                           THEN [a EXCEPT !.skip = TRUE, !.item = a.sum]
                           ELSE [a EXCEPT !.has = FALSE, !.add = FALSE, !.conj = FALSE]
           [] a.conj    -> a
           [] t = "and" -> IF Truthy(a.sum)
                           THEN [a EXCEPT !.has = FALSE, !.add = FALSE]
                           ELSE [a EXCEPT !.conj = TRUE]
           [] t = "+"   -> [a EXCEPT !.add = TRUE]
           [] OTHER     -> Operand(a, EvalAtom(t, ns, a.y))

RECURSIVE EvalRun(_, _, _, _)
EvalRun(toks, i, a, ns) ==
    IF i > Len(toks) THEN a ELSE EvalRun(toks, i + 1, EvalTok(a, toks[i], ns), ns)

(* [val, y, fx, err] of evaluating a compiled text *)
EvalValue(a) ==
    [val |-> IF a.tuple THEN TupleV ELSE IF a.skip THEN a.item ELSE a.sum,
     y   |-> a.y, fx |-> a.fx, err |-> a.err]

Eval(text, ns, y) == EvalValue(EvalRun(Lex(text), 1, EvalInit(y), ns))

(* float(v) *)
Float(v) ==
    CASE v.t = "num" -> [val |-> v.n, err |-> "none"]
      [] v.t = "str" -> [val |-> 0, err |-> "ValueError"]
      [] OTHER       -> [val |-> 0, err |-> "TypeError"]

-----------------------------------------------------------------------------
(* The callables the parsers return *)

(* {**_SAFE_MATH, **params} *)
Namespace(params) == Merge(_SAFE_MATH, params)

(* a merge in which the entries of the parameter map win: {var: value, "y": y, **namespace} *)
ParamsOverLocals(namespace, var, value) == Merge((var :> Num(value)) @@ ("y" :> ArrayV), namespace)

(* {**namespace, var: value, "y": y} *)
LocalNs(namespace, var, value) == Merge(namespace, (var :> Num(value)) @@ ("y" :> ArrayV))

(* for k in range(order - 1): dydt[base + k] = y[base + k + 1]  (0-based)   *)
ShiftCopy(d, y, base, order) ==
    IF order >= 2 /\ Len(y) < base + order
    THEN [d EXCEPT !.err = "IndexError"]
    ELSE [d EXCEPT !.dydt = [j \in DOMAIN d.dydt |->
                                IF j \in (base + 1)..(base + order - 1) THEN y[j + 1] ELSE d.dydt[j]],
                   !.writes = d.writes \o [k \in 1..(order - 1) |-> base + k]]

(* dydt[pos] = float(highest)  (pos 1-based) *)
StoreHighest(d, highest, pos) ==
    IF Float(highest).err # "none" THEN [d EXCEPT !.err = Float(highest).err]
    ELSE IF pos \notin DOMAIN d.dydt THEN [d EXCEPT !.err = "IndexError"]
    ELSE [d EXCEPT !.dydt[pos] = Float(highest).val, !.writes = Append(d.writes, pos)]

Empty(n) == [dydt |-> Zeros(n), writes |-> <<>>, err |-> "none"]

CallResult(d, y, fx) == [res |-> d.dydt, writes |-> d.writes, raised |-> d.err, yOut |-> y, fx |-> fx]

(* parse_expression.ode_func(x, y) *)
(* the rest of a callable once its expression evaluated to r: d holds the   *)
(* derivative entries copied so far, pos is where float(r.val) goes         *)
Finish(r, d, pos) ==
    IF r.err # "none" THEN CallResult([Empty(0) EXCEPT !.err = r.err], r.y, r.fx)
    ELSE IF d.err # "none" THEN CallResult(d, r.y, r.fx)
    ELSE CallResult(StoreHighest(d, r.val, pos), r.y, r.fx)

OdeFinish(r, order) == Finish(r, ShiftCopy(Empty(order), r.y, 0, order), order)

ode_func(text, order, namespace, x, y) ==
    OdeFinish(Eval(text, LocalNs(namespace, "x", x), y), order)

(* parse_difference_expression.recur_func(n, y) *)
recur_func(text, order, namespace, n, y) ==
    Finish(Eval(text, LocalNs(namespace, "n", n), y), Empty(1), 1)

(* parse_vector_expression.ode_func(x, y): component i, then the rest *)
RECURSIVE VectorBlocks(_, _, _, _, _, _, _, _)
RECURSIVE VectorBlock(_, _, _, _, _, _, _, _, _)
(* block i once its derivative entries are copied (d1) and its expression   *)
(* evaluated (r)                                                            *)
VectorBlock(texts, order, ns, i, d1, r, y, fx, n_components) ==
    IF d1.err # "none" THEN CallResult(d1, y, fx)
    ELSE VectorBlocks(texts, order, ns, i + 1,
                      IF r.err # "none" THEN [d1 EXCEPT !.err = r.err]
                      ELSE StoreHighest(d1, r.val, (i - 1) * order + order),
                      r.y, fx \cup r.fx, n_components)

VectorBlocks(texts, order, ns, i, d, y, fx, n_components) ==
    IF i > n_components \/ d.err # "none" THEN CallResult(d, y, fx)
    ELSE VectorBlock(texts, order, ns, i, ShiftCopy(d, y, (i - 1) * order, order),
                     Eval(texts[i], ns, y), y, fx, n_components)

vector_ode_func(texts, order, namespace, x, y) ==
    VectorBlocks(texts, order, LocalNs(namespace, "x", x), 1,
                 Empty(Len(texts) * order), y, {}, Len(texts))

(* parse_pde_rhs_expression.rhs_func: variables[i] is bound to the i-th argument *)
PdeNs(namespace, variables, values) ==
    LET bound == 1..(IF Len(values) < Len(variables) THEN Len(values) ELSE Len(variables))
    IN  Merge(namespace, [v \in {variables[i] : i \in bound} |->
                            Num(values[CHOOSE i \in bound :
                                          /\ variables[i] = v
                                          /\ \A j \in bound : j > i => variables[j] # v])])

rhs_func(text, namespace, variables, values) ==
    Finish(Eval(text, PdeNs(namespace, variables, values), <<>>), Empty(1), 1)

-----------------------------------------------------------------------------
(* The calls into solver/equation_parser.py *)

Parsers   == {"parse_expression", "parse_difference_expression",
              "parse_pde_rhs_expression", "parse_vector_expression"}
Resolvers == {"get_ode_function", "get_difference_function", "get_vector_ode_function"}

(* the parser a call ends up in *)
ParserOf(entry) ==
    CASE entry = "get_ode_function"        -> "parse_expression"
      [] entry = "get_difference_function" -> "parse_difference_expression"
      [] entry = "get_vector_ode_function" -> "parse_vector_expression"
      [] OTHER                             -> entry

(* config/equations.py and config/difference_equations.py: their attributes *)
ModuleCallables(entry) ==
    IF entry = "get_difference_function" THEN {"geometric_growth"} ELSE {"harmonic_oscillator"}
ModuleAttributes(entry) == ModuleCallables(entry) \cup {"np"}

Texts      == args.expression.texts
StateSize  == IF ParserOf(args.entry) = "parse_vector_expression"
              THEN Len(Texts) * args.order ELSE args.order

Fresh == [n |-> 0, x |-> 0, yIn |-> <<>>, yOut |-> <<>>, res |-> <<>>, writes |-> <<>>,
          raised |-> "none"]

Raise(exc) == /\ outcome' = exc
              /\ pc' = "done"

(* The test with function_name left out *)
SuppliedExpressionOnly(entry, a) ==
    [expr |-> a.expression.given /\ a.expression.texts # <<>>, name |-> FALSE]

(* The exactly-one-of test that opens each get_*_function *)
Supplied(entry, a) ==
    IF entry = "get_vector_ode_function"
    THEN [expr |-> a.expression.given /\ a.expression.texts # <<>>,
          name |-> a.function_name \notin {NoneName, ""}]
    ELSE [expr |-> a.expression.given,
          name |-> a.function_name # NoneName]

CheckArgs ==
    /\ pc = "check"
    /\ LET sup == Supplied(args.entry, args) IN
       IF sup.expr /\ sup.name THEN Raise("ValueError")
       ELSE IF ~sup.expr /\ ~sup.name THEN Raise("ValueError")
       ELSE IF sup.expr
            THEN IF /\ args.entry = "get_vector_ode_function"
                    /\ Len(args.expression.texts) # args.vector_components
                 THEN Raise("EquationParseError")
                 ELSE pc' = "begin" /\ UNCHANGED outcome
            ELSE pc' = "import" /\ UNCHANGED outcome
    /\ UNCHANGED <<args, idx, normd, compiled, nEval, effects, errs, imports, call>>
    /\ UNCHANGED <<valVars, plVars, slvVars>>

(* from config import equations; hasattr; getattr; callable *)
ImportFunction ==
    /\ pc = "import"
    /\ IF args.function_name \notin ModuleAttributes(args.entry) THEN Raise("EquationParseError")
       ELSE IF args.function_name \notin ModuleCallables(args.entry) THEN Raise("EquationParseError")
       ELSE outcome' = "callable" /\ pc' = "done"
    /\ imports' = imports + 1
    /\ UNCHANGED <<args, idx, normd, compiled, nEval, effects, errs, call>>
    /\ UNCHANGED <<valVars, plVars, slvVars>>

(* The statements before the first normalize_unicode_escapes *)
Begin ==
    /\ pc = "begin"
    /\ CASE args.entry = "validate_expression" /\ Strip(Texts[1]) = <<>> ->
                /\ errs' = <<"Expression is empty">>
                /\ outcome' = "errors"
                /\ pc' = "done"
         [] ParserOf(args.entry) = "parse_vector_expression" /\ Len(Texts) = 0 ->
                /\ Raise("EquationParseError")
                /\ UNCHANGED errs
         [] OTHER ->
                /\ pc' = "normalize"
                /\ UNCHANGED <<outcome, errs>>
    /\ UNCHANGED <<args, idx, normd, compiled, nEval, effects, imports, call>>
    /\ UNCHANGED <<valVars, plVars, slvVars>>

Normalize ==
    /\ pc = "normalize"
    /\ normd' = Append(normd, normalize_unicode_escapes(
                    IF args.entry = "validate_expression" THEN Strip(Texts[idx]) ELSE Texts[idx]))
    /\ pc' = "validate"
    /\ UNCHANGED <<args, idx, compiled, nEval, effects, outcome, errs, imports, call>>
    /\ UNCHANGED <<valVars, plVars, slvVars>>

ValidateAst ==
    /\ pc = "validate"
    /\ LET v == _validate_ast(normd[idx]) IN
       IF args.entry = "validate_expression"
       THEN /\ errs' = IF v = "ok" THEN <<>> ELSE <<v>>
            /\ outcome' = "errors"
            /\ pc' = "done"
       ELSE /\ IF v = "ok" THEN pc' = "compile" /\ UNCHANGED outcome
                           ELSE Raise("EquationParseError")
            /\ UNCHANGED errs
    /\ UNCHANGED <<args, idx, normd, compiled, nEval, effects, imports, call>>
    /\ UNCHANGED <<valVars, plVars, slvVars>>

Compile ==
    /\ pc = "compile"
    /\ compiled' = Append(compiled, normd[idx])
    /\ IF ParserOf(args.entry) = "parse_vector_expression" /\ idx < Len(Texts)
       THEN idx' = idx + 1 /\ pc' = "normalize"
       ELSE idx' = idx /\ pc' = "test_eval"
    /\ UNCHANGED <<args, normd, nEval, effects, outcome, errs, imports, call>>
    /\ UNCHANGED <<valVars, plVars, slvVars>>

(* _test_eval: every compiled expression once, zero-filled, until one raises *)
RECURSIVE TestEvals(_, _, _, _, _)
RECURSIVE TestEvalsAfter(_, _, _, _, _)
TestEvalsAfter(texts, i, ns, acc, r) ==
    TestEvals(texts, i + 1, ns, r.y, [n |-> acc.n + 1, fx |-> acc.fx \cup r.fx, err |-> r.err])

TestEvals(texts, i, ns, y, acc) ==
    IF i > Len(texts) \/ acc.err # "none" THEN acc
    ELSE TestEvalsAfter(texts, i, ns, acc, Eval(texts[i], ns, y))

TestNsWith(params) ==
    LET p == ParserOf(args.entry) IN
    CASE p = "parse_difference_expression" -> LocalNs(Namespace(params), "n", 0)
      [] p = "parse_pde_rhs_expression" ->
             PdeNs(Namespace(params), args.variables, Zeros(Len(args.variables)))
      [] OTHER -> LocalNs(Namespace(params), "x", 0)

TestNs == TestNsWith(args.params)

TestState == IF ParserOf(args.entry) = "parse_pde_rhs_expression" THEN <<>> ELSE Zeros(StateSize)

(* a callable whatever the test evaluation did *)
TestEvalUnchecked(t) ==
    /\ nEval' = nEval + t.n
    /\ effects' = effects \cup t.fx
    /\ outcome' = "callable"

(* except Exception as exc: raise EquationParseError; else the callable *)
TestEvalDone(t) ==
    /\ nEval' = nEval + t.n
    /\ effects' = effects \cup t.fx
    /\ outcome' = IF t.err = "none" THEN "callable" ELSE "EquationParseError"

TestEval ==
    /\ pc = "test_eval"
    /\ TestEvalDone(TestEvals(compiled, 1, TestNs, TestState, [n |-> 0, fx |-> {}, err |-> "none"]))
    /\ pc' = "done"
    /\ UNCHANGED <<args, idx, normd, compiled, errs, imports, call>>
    /\ UNCHANGED <<valVars, plVars, slvVars>>

(* The solver invokes the returned callable *)
InvokeWith(params, x, y) ==
    LET p == ParserOf(args.entry) IN
    CASE p = "parse_expression" -> ode_func(compiled[1], args.order, Namespace(params), x, y)
      [] p = "parse_difference_expression" ->
             recur_func(compiled[1], args.order, Namespace(params), x, y)
      [] p = "parse_pde_rhs_expression" ->
             rhs_func(compiled[1], Namespace(params), args.variables,
                      [i \in 1..Len(args.variables) |-> x])
      [] OTHER -> vector_ode_func(compiled, args.order, Namespace(params), x, y)

Invoke(x, y) == InvokeWith(args.params, x, y)

(* The states handed to a callable: y[i] = a*i + b modulo MaxVal + 1, every  *)
(* a and b.  For size 2 and MaxVal + 1 prime these are all the states.      *)
States(size) == {[i \in 1..size |-> (a * i + b) % (MaxVal + 1)] : a \in 0..MaxVal, b \in 0..MaxVal}

Called(x, y, r) ==
    /\ call' = [n |-> call.n + 1, x |-> x, yIn |-> y, yOut |-> r.yOut, res |-> r.res,
                writes |-> r.writes, raised |-> r.raised]
    /\ nEval' = nEval + 1
    /\ effects' = effects \cup r.fx

CallRhs ==
    /\ pc = "done"
    /\ outcome = "callable"
    /\ compiled # <<>>
    /\ call.n < MaxCalls
    /\ \E x \in 0..MaxVal, y \in States(StateSize) : Called(x, y, Invoke(x, y))
    /\ UNCHANGED <<args, pc, idx, normd, compiled, outcome, errs, imports>>
    /\ UNCHANGED <<valVars, plVars, slvVars>>

-----------------------------------------------------------------------------
(* Requests *)

NoParams == [name \in {} |-> Num(0)]

Request(entry, given, texts, fname, order, params, comps, variables) ==
    [entry |-> entry, expression |-> [given |-> given, texts |-> texts],
     function_name |-> fname, order |-> order, params |-> params,
     vector_components |-> comps, variables |-> variables]

EqStart(first) ==
    /\ pc = first
    /\ idx = 1
    /\ normd = <<>>
    /\ compiled = <<>>
    /\ nEval = 0
    /\ effects = {}
    /\ outcome = "none"
    /\ errs = <<>>
    /\ imports = 0
    /\ call = Fresh

-----------------------------------------------------------------------------
(* solver/validators.py *)

(* float values: a finite number, NaN, plus or minus infinity *)
Fin(n)   == [k |-> "fin", v |-> n]
NaN      == [k |-> "nan", v |-> 0]
Inf(sgn) == [k |-> "inf", v |-> sgn]

(* error_metrics: dict[str, float] = {}  (no residual_* key) *)
NoMetrics == [given |-> FALSE, residual_max |-> Fin(0), residual_rms |-> Fin(0)]

_is_finite(value) == value.k = "fin"

(* a >= b on floats: false as soon as one side is NaN *)
GreaterEq(a, b) ==
    /\ a.k # "nan"
    /\ b.k # "nan"
    /\ CASE a.k = "inf" /\ b.k = "inf" -> a.v >= b.v
         [] a.k = "inf" -> a.v > 0
         [] b.k = "inf" -> b.v < 0
         [] OTHER -> a.v >= b.v

(* An error message: its wording, and the index or count it is formatted with *)
Msg(text, at) == [text |-> text, at |-> at]

SOLVER_METHODS == {"RK45", "RK23", "DOP853", "Radau", "BDF", "LSODA"}

MinPoints == 10
MaxPoints == 1000000

(* validate_expression as one function of [given, text]; given is FALSE for None *)
validate_expression(expression) ==
    IF ~expression.given \/ expression.text = <<>> \/ Strip(expression.text) = <<>>
    THEN <<"Expression is empty">>
    ELSE LET v == _validate_ast(normalize_unicode_escapes(Strip(expression.text)))
         IN  IF v = "ok" THEN <<>> ELSE <<v>>

_validate_ode_expression(expression) ==
    LET e == validate_expression(expression) IN [i \in DOMAIN e |-> Msg(e[i], 0)]

_validate_domain(x_min, x_max) ==
    (IF GreaterEq(x_min, x_max) THEN <<Msg("x_min must be less than x_max", 0)>> ELSE <<>>)
    \o (IF ~(_is_finite(x_min) /\ _is_finite(x_max))
        THEN <<Msg("Domain bounds must be finite numbers", 0)>> ELSE <<>>)

(* one message per value that is not finite, in order, with its 0-based place *)
NotFiniteMessages(values, text) ==
    LET bad == SelectSeq([i \in 1..Len(values) |-> i], LAMBDA i : ~_is_finite(values[i]))
    IN  [j \in 1..Len(bad) |-> Msg(text, bad[j] - 1)]

_validate_initial_conditions(y0, expected_order) ==
    (IF Len(y0) # expected_order
     THEN <<Msg("Expected initial condition(s)", expected_order)>> ELSE <<>>)
    \o NotFiniteMessages(y0, "Initial condition is not a finite number")

_validate_grid(num_points) ==
    (IF num_points < MinPoints
     THEN <<Msg("Number of points must be at least 10", 0)>> ELSE <<>>)
    \o (IF num_points > MaxPoints
        THEN <<Msg("Number of points must not exceed 1,000,000", 0)>> ELSE <<>>)

_validate_method(method) ==
    IF method \notin SOLVER_METHODS THEN <<Msg("Unknown method", 0)>> ELSE <<>>

(* params: the dict's values in insertion order *)
_validate_parameters(params) ==
    NotFiniteMessages(params, "Parameter is not a finite number")

(* The parameters of validate_all_inputs, and those without a default *)
Signature == {"expression", "order", "x_min", "x_max", "y0", "num_points", "method", "params"}
Required  == Signature \ {"params"}

(* A call binds when it names only parameters and every one without a default *)
BindOk(keywords) == keywords \subseteq Signature /\ Required \subseteq keywords

NoneParams == [given |-> FALSE, values |-> <<>>]

(* Every check after the first that reports is skipped *)
ValidateAllFirstOnly(a) ==
    IF ~BindOk(a.keywords) THEN [exc |-> "TypeError", errors |-> <<>>]
    ELSE LET e1 == _validate_ode_expression(a.expression)
             e2 == _validate_domain(a.x_min, a.x_max)
             e3 == _validate_initial_conditions(a.y0, a.order)
             e4 == _validate_grid(a.num_points)
         IN  [exc |-> "none",
              errors |-> IF e1 # <<>> THEN e1 ELSE IF e2 # <<>> THEN e2
                         ELSE IF e3 # <<>> THEN e3 ELSE IF e4 # <<>> THEN e4
                         ELSE _validate_method(a.method)]

(* a: the keywords of the call and their values.  The result is the          *)
(* exception raised, or "none" and the list returned.                       *)
validate_all_inputs(a) ==
    IF ~BindOk(a.keywords) THEN [exc |-> "TypeError", errors |-> <<>>]
    ELSE LET params == IF "params" \in a.keywords THEN a.params ELSE NoneParams
         IN  [exc |-> "none",
              errors |-> _validate_ode_expression(a.expression)
                         \o _validate_domain(a.x_min, a.x_max)
                         \o _validate_initial_conditions(a.y0, a.order)
                         \o _validate_grid(a.num_points)
                         \o _validate_method(a.method)
                         \o (IF params.given /\ params.values # <<>>
                             THEN _validate_parameters(params.values) ELSE <<>>)]

NoCall == [keywords |-> {}]

ValIdle ==
    /\ vargs = NoCall
    /\ vret = [state |-> "idle", exc |-> "none", errors |-> <<>>]

CallValidateAllInputs ==
    /\ vret.state = "called"
    /\ LET r == validate_all_inputs(vargs)
       IN  vret' = [state |-> "done", exc |-> r.exc, errors |-> r.errors]
    /\ UNCHANGED <<vargs, eqVars, plVars, slvVars>>

-----------------------------------------------------------------------------
(* pipeline.py: run_solver_pipeline *)

(* vars_list = variables if variables else ["x"] *)
VarsList(r) == IF r.variables = <<>> THEN <<"x">> ELSE r.variables

is_multivariate(variables) == IF variables = <<>> THEN FALSE ELSE Len(variables) > 1

IsPde(r) == r.equation_type = "pde" \/ is_multivariate(VarsList(r))

IsVector(r) ==
    \/ r.vector_expressions.given /\ r.vector_expressions.texts # <<>>
    \/ r.equation_type = "vector_ode"

(* The branch of the if/elif chain that resolves and solves *)
Path(r) ==
    IF IsPde(r) /\ Len(VarsList(r)) >= 2 THEN "pde"
    ELSE IF r.equation_type = "difference" THEN "difference"
    ELSE IF IsVector(r) THEN "vector"
    ELSE "ode"

RECURSIVE SeqOf(_)
SeqOf(S) == IF S = {} THEN <<>> ELSE LET first == CHOOSE m \in S : TRUE IN <<first>> \o SeqOf(S \ {first})

(* The keyword arguments run_solver_pipeline hands to validate_all_inputs *)
ValidationCall(r) ==
    [keywords |-> Signature \cup {"function_name", "x0_list", "equation_type",
                                  "vector_expressions", "vector_components"},
     expression |-> IF IsVector(r) THEN [given |-> FALSE, text |-> <<>>] ELSE r.expression,
     order |-> r.order,
     x_min |-> Fin(r.x_min),
     x_max |-> Fin(r.x_max),
     y0 |-> [i \in DOMAIN r.y0 |-> Fin(r.y0[i])],
     num_points |-> r.n_points,
     method |-> r.method,
     params |-> [given |-> TRUE,
                 values |-> LET names == SeqOf(DOMAIN r.parameters)
                            IN  [i \in DOMAIN names |-> Fin(r.parameters[names[i]].n)]],
     x0_list |-> r.x0_list]

PlIdle ==
    /\ req = NoCall
    /\ ppc = "idle"
    /\ plog = <<>>
    /\ sol = [n |-> 0, rows |-> 0, success |-> FALSE, y |-> <<>>, error_metrics |-> NoMetrics]
    /\ pout = "none"

PRaise(exc) ==
    /\ pout' = exc
    /\ ppc' = "done"

(* if not is_pde: errors = validate_all_inputs(...); if errors: raise *)
(* what run_solver_pipeline does with the outcome r of validate_all_inputs *)
Validated(r) ==
    /\ vret' = [state |-> "done", exc |-> r.exc, errors |-> r.errors]
    /\ IF r.exc # "none" THEN PRaise(r.exc)
       ELSE IF r.errors # <<>> THEN PRaise("ValidationError")
       ELSE ppc' = "resolve" /\ UNCHANGED pout

PValidate ==
    /\ ppc = "start"
    /\ IF IsPde(req)
       THEN /\ ppc' = "resolve"
            /\ UNCHANGED <<plog, pout, valVars>>
       ELSE /\ plog' = Append(plog, "validate")
            /\ vargs' = ValidationCall(req)
            /\ Validated(validate_all_inputs(ValidationCall(req)))
    /\ UNCHANGED <<req, sol, eqVars, slvVars>>

(* The call into solver/equation_parser.py each branch opens with *)
ResolveCall(r) ==
    LET e == r.expression
        v == r.vector_expressions
        vec_exprs == v.given /\ v.texts # <<>>
    IN  CASE Path(r) = "pde" ->
                 Request("parse_pde_rhs_expression", TRUE,
                         <<IF e.given /\ e.text # <<>> THEN e.text ELSE <<"0">>>>,
                         NoneName, r.order, r.parameters, 1, VarsList(r))
          [] Path(r) = "difference" ->
                 Request("get_difference_function", e.given,
                         IF e.given THEN <<e.text>> ELSE <<>>,
                         r.function_name, r.order, r.parameters, 1, <<"n">>)
          [] Path(r) = "vector" ->
                 Request("get_vector_ode_function", vec_exprs,
                         IF vec_exprs THEN v.texts ELSE <<>>,
                         IF vec_exprs THEN NoneName ELSE r.function_name,
                         r.order, r.parameters, r.vector_components, <<"x">>)
          [] OTHER ->
                 Request("get_ode_function", e.given,
                         IF e.given THEN <<e.text>> ELSE <<>>,
                         r.function_name, r.order, r.parameters, 1, <<"x">>)

PResolve ==
    /\ ppc = "resolve"
    /\ IF Path(req) = "pde" /\ ~req.y_bounds
       THEN /\ PRaise("ValidationError")
            /\ UNCHANGED <<plog, args, pc>>
       ELSE /\ plog' = Append(plog, "resolve")
            /\ args' = ResolveCall(req)
            /\ pc' = IF Path(req) = "pde" THEN "begin" ELSE "check"
            /\ ppc' = "resolving"
            /\ UNCHANGED pout
    /\ UNCHANGED <<req, sol, valVars, slvVars>>
    /\ UNCHANGED <<idx, normd, compiled, nEval, effects, outcome, errs, imports, call>>

(* config/equations.py, config/difference_equations.py: the functions a      *)
(* function_name resolves to, with their parameters at 1                    *)
PredefinedCall(name, y) ==
    LET R(res, e) == [res |-> res, writes |-> <<>>, raised |-> e, yOut |-> y, fx |-> {}]
    IN  IF name = "geometric_growth"
        THEN IF Len(y) < 1 THEN R(<<>>, "IndexError") ELSE R(<<y[1]>>, "none")
        ELSE IF Len(y) < 2 THEN R(<<>>, "IndexError") ELSE R(<<y[2], 0 - y[1]>>, "none")

(* The callable the resolve stage returned, invoked *)
ResolvedCall(x, y) ==
    IF compiled = <<>> THEN PredefinedCall(args.function_name, y) ELSE Invoke(x, y)

Solved(n, rows) == [exc |-> "none", n |-> n, rows |-> rows, success |-> TRUE]
Failed(exc)     == [exc |-> exc, n |-> 0, rows |-> 0, success |-> FALSE]

(* interior grid points (i, j), j outermost: k_idx(i, j) = (j-1)*(nx-2) + (i-1) *)
InteriorPoints(nx, ny) ==
    [k \in 1..((nx - 2) * (ny - 2)) |-> <<((k - 1) % (nx - 2)) + 1, ((k - 1) \div (nx - 2)) + 1>>]

(* solver/pde_solver.py; the grid coordinates are the grid indices, and     *)
(* cx = 1.0 / (hx * hx) divides by zero when x_min = x_max                  *)
solve_pde_2d(x_min, x_max, nx, ny) ==
    IF nx < 3 \/ ny < 3 THEN Failed("SolverFailedError")
    ELSE IF (nx - 2) * (ny - 2) <= 0 THEN Solved(nx, ny)
    ELSE IF x_min = x_max THEN Failed("ZeroDivisionError")
    ELSE LET pts == InteriorPoints(nx, ny) IN
         IF \E k \in DOMAIN pts :
                rhs_func(compiled[1], Namespace(args.params), args.variables, pts[k]).raised # "none"
         THEN Failed("SolverFailedError")
         ELSE Solved(nx, ny)

(* The loop of solve_difference from step i on; state is the window         *)
RECURSIVE Iterate(_, _, _, _, _)
RECURSIVE Iterated(_, _, _, _, _)
(* step i once recur_func returned r: roll the window, store the new value  *)
Iterated(i, n_points, n_min, order, r) ==
    IF r.raised # "none" \/ Len(r.res) # 1 THEN [success |-> FALSE, last_i |-> i]
    ELSE IF Len(r.yOut) = 0 THEN [success |-> FALSE, last_i |-> i]
    ELSE IF Len(r.yOut) \notin {order, 1} THEN [success |-> FALSE, last_i |-> i]
    ELSE Iterate(i + 1, n_points, n_min, order, Append(Tail(r.yOut), r.res[1]))

Iterate(i, n_points, n_min, order, state) ==
    IF i > n_points - 1 THEN [success |-> TRUE, last_i |-> n_points - 1]
    ELSE Iterated(i, n_points, n_min, order, ResolvedCall(n_min + i - 1, state))

(* solver/difference_solver.py *)
DifferenceSolution(it, n_points, order) ==
    IF it.success THEN Solved(n_points, order)
    ELSE [exc |-> "none", n |-> it.last_i + 1, rows |-> order, success |-> FALSE]

(* y0[:order] *)
FirstOf(y0, order) == SubSeq(y0, 1, IF Len(y0) < order THEN Len(y0) ELSE order)

solve_difference(n_min, n_max, y0, order) ==
    IF n_min >= n_max THEN [exc |-> "none", n |-> 0, rows |-> 0, success |-> FALSE]
    ELSE IF Len(FirstOf(y0, order)) \notin {order, 1} THEN Failed("ValueError")
    ELSE DifferenceSolution(Iterate(1, n_max - n_min + 1, n_min, order, FirstOf(y0, order)),
                            n_max - n_min + 1, order)

(* an integration that hands back a solution it did not finish *)
solve_ode_unchecked(x_min, y0, n_points, converged) ==
    IF ResolvedCall(x_min, y0).raised # "none" THEN Failed(ResolvedCall(x_min, y0).raised)
    ELSE [exc |-> "none", n |-> n_points, rows |-> Len(y0), success |-> converged]

(* solver/ode_solver.py: the right-hand side is called on the initial state; *)
(* converged is the integrator's verdict                                    *)
solve_ode(x_min, y0, n_points, converged) ==
    IF ResolvedCall(x_min, y0).raised # "none" THEN Failed(ResolvedCall(x_min, y0).raised)
    ELSE IF ~converged THEN Failed("SolverFailedError")
    ELSE Solved(n_points, Len(y0))

(* if not diff_sol.success: raise SolverFailedError *)
RaiseUnlessSuccess(d) == IF d.exc = "none" /\ ~d.success THEN Failed("SolverFailedError") ELSE d

(* The solve step of the branch taken; n_points_y = 0 stands for None, and   *)
(* x0_list is None in every request, so the ODE branch calls solve_ode      *)
Solve(r, converged) ==
    CASE Path(r) = "pde" ->
             solve_pde_2d(r.x_min, r.x_max, r.n_points,
                          IF r.n_points_y > 0 THEN r.n_points_y ELSE r.n_points)
      [] Path(r) = "difference" ->
             RaiseUnlessSuccess(solve_difference(r.x_min, r.x_max, r.y0, r.order))
      [] OTHER -> solve_ode(r.x_min, r.y0, r.n_points, converged)

(* t_eval = np.linspace(x_min, x_max, n_points), rounded down to integers *)
Samples(r) ==
    [i \in 1..r.n_points |->
        r.x_min + ((i - 1) * (r.x_max - r.x_min)) \div (IF r.n_points > 1 THEN r.n_points - 1 ELSE 1)]

(* solution.y, one column per sample: a stand-in for the integrator's       *)
(* output that starts at y0 and differs from sample to sample and from row  *)
(* to row                                                                   *)
Trajectory(y0, n) ==
    [i \in 1..n |-> [j \in 1..Len(y0) |-> y0[j] + (i - 1) * (Len(y0) - j)]]

(* solver/error_metrics.py: np.gradient(y_2d, x, axis=1) at row j, sample i: *)
(* central differences inside, one-sided at the two ends; a zero spacing    *)
(* gives nan                                                                *)
Gradient(y, x, j, i) ==
    LET lo == IF i > 1 THEN i - 1 ELSE 1
        hi == IF i < Len(x) THEN i + 1 ELSE Len(x)
    IN  IF x[hi] = x[lo] THEN NaN ELSE Fin((y[hi][j] - y[lo][j]) \div (x[hi] - x[lo]))

RECURSIVE SumSq(_)
SumSq(d) == IF d = <<>> THEN 0 ELSE Head(d) * Head(d) + SumSq(Tail(d))

(* np.linalg.norm(f_val - dy_dx[:, i]), squared to stay in the integers *)
Residual(f_val, y, x, i) ==
    IF \E j \in DOMAIN f_val : Gradient(y, x, j, i).k = "nan" THEN NaN
    ELSE Fin(SumSq([j \in DOMAIN f_val |-> f_val[j] - Gradient(y, x, j, i).v]))

RECURSIVE SumOf(_)
SumOf(s) == IF s = <<>> THEN 0 ELSE Head(s).v + SumOf(Tail(s))

(* residual_max and residual_rms of the result, both squared;               *)
(* residual_mean, the mean of the roots, is left out                        *)
Metrics(residuals) ==
    IF \E i \in DOMAIN residuals : residuals[i].k = "nan"
    THEN [given |-> TRUE, residual_max |-> NaN, residual_rms |-> NaN]
    ELSE [given |-> TRUE,
          residual_max |-> Fin(CHOOSE m \in {residuals[i].v : i \in DOMAIN residuals} :
                                   \A i \in DOMAIN residuals : residuals[i].v <= m),
          residual_rms |-> Fin(SumOf(residuals) \div Len(residuals))]

(* y_2d[:, i] handed to ode_func as a view: what the call did to its        *)
(* argument is in the solution                                              *)
ColumnView(col, r) == r.yOut

(* y_i = y_2d[:, i].copy(): what the call did to its argument stays in the  *)
(* copy, and the column of the solution is as it was                        *)
ColumnCopy(col, r) == ColumnView(col, [r EXCEPT !.yOut = col])

(* the loop of compute_ode_residual_error from sample i on: y is the        *)
(* solution array as it is by now, dy the array the gradient was taken of   *)
RECURSIVE ResidualLoop(_, _, _, _, _)
ResidualStep(i, x, y, dy, acc, r) ==
    IF r.raised # "none"
    THEN [raised |-> r.raised, y |-> [y EXCEPT ![i] = ColumnCopy(y[i], r)], metrics |-> NoMetrics]
    ELSE IF Len(r.res) # Len(y[i])
    THEN [raised |-> "ValueError", y |-> [y EXCEPT ![i] = ColumnCopy(y[i], r)],
          metrics |-> NoMetrics]
    ELSE ResidualLoop(i + 1, x, [y EXCEPT ![i] = ColumnCopy(y[i], r)], dy,
                      Append(acc, Residual(r.res, dy, x, i)))

ResidualLoop(i, x, y, dy, acc) ==
    IF i > Len(x) THEN [raised |-> "none", y |-> y, metrics |-> Metrics(acc)]
    ELSE ResidualStep(i, x, y, dy, acc, ResolvedCall(x[i], y[i]))

(* solver/error_metrics.py: the metrics, and the array y after the call *)
compute_ode_residual_error(x, y) ==
    IF Len(x) < 2
    THEN [raised |-> "none", y |-> y,
          metrics |-> [given |-> TRUE, residual_max |-> Fin(0), residual_rms |-> Fin(0)]]
    ELSE ResidualLoop(1, x, y, y, <<>>)

(* the ODE and the vector branch after the solver returned s: the residual  *)
(* diagnostic d, then the fields the metadata and the result are built of   *)
Diagnosed(s, d) ==
    IF d.raised # "none" THEN PRaise(d.raised) /\ UNCHANGED sol
    ELSE /\ sol' = [n |-> s.n, rows |-> s.rows, success |-> s.success,
                    y |-> d.y, error_metrics |-> d.metrics]
         /\ ppc' = "statistics"
         /\ UNCHANGED pout

SolveDone(s) ==
    /\ plog' = Append(plog, "solve")
    /\ IF s.exc # "none"
       THEN PRaise(s.exc) /\ UNCHANGED sol
       ELSE IF Path(req) \in {"ode", "vector"}
       THEN Diagnosed(s, compute_ode_residual_error(Samples(req), Trajectory(req.y0, s.n)))
       ELSE /\ sol' = [n |-> s.n, rows |-> s.rows, success |-> s.success,
                       y |-> <<>>, error_metrics |-> NoMetrics]
            /\ ppc' = "statistics"
            /\ UNCHANGED pout

PSolve ==
    /\ ppc = "resolving"
    /\ pc = "done"
    /\ IF outcome # "callable"
       THEN /\ PRaise(outcome)
            /\ UNCHANGED <<plog, sol>>
       ELSE \E converged \in BOOLEAN : SolveDone(Solve(req, converged))
    /\ UNCHANGED <<req, eqVars, valVars, slvVars>>

(* compute_statistics / compute_statistics_2d *)
PStatistics ==
    /\ ppc = "statistics"
    /\ plog' = Append(plog, "statistics")
    /\ ppc' = "plot"
    /\ UNCHANGED <<req, sol, pout, eqVars, valVars, slvVars>>

(* create_surface_plot / create_contour_plot / create_solution_plot *)
PPlot ==
    /\ ppc = "plot"
    /\ plog' = Append(plog, "plot")
    /\ ppc' = "export"
    /\ UNCHANGED <<req, sol, pout, eqVars, valVars, slvVars>>

(* export_all_results *)
PExport ==
    /\ ppc = "export"
    /\ plog' = Append(plog, "export")
    /\ ppc' = "save_plot"
    /\ UNCHANGED <<req, sol, pout, eqVars, valVars, slvVars>>

(* save_plot, then return SolverResult(...) *)
PReturn ==
    /\ ppc = "save_plot"
    /\ plog' = Append(plog, "save_plot")
    /\ pout' = "SolverResult"
    /\ ppc' = "done"
    /\ UNCHANGED <<req, sol, eqVars, valVars, slvVars>>

(* Sandbox requests: every text of at most MaxLen chunks over SandboxChunks *)
SandboxChunks == {"w", ",", "lam", "Q", "TQ", "uw", "ws"}
SandboxTexts  == SeqsUpTo(SandboxChunks, MaxLen)
SandboxParams == {NoParams, "w" :> Num(1)}
VecTexts      == {<<"w">>, <<"lam", "w">>, <<"Q", ",", "lam", "Q">>, <<"uw">>}

InitSandbox ==
    /\ \/ \E e \in (Parsers \ {"parse_vector_expression"}) \cup {"validate_expression"},
             t \in SandboxTexts, o \in 1..MaxOrder, p \in SandboxParams :
             args = Request(e, TRUE, <<t>>, NoneName, o, p, 1, <<"x", "y">>)
       \/ \E ts \in SeqsUpTo(VecTexts, MaxComp), o \in 1..MaxOrder, p \in SandboxParams :
             args = Request("parse_vector_expression", TRUE, ts, NoneName, o, p, Len(ts), <<"x">>)
    /\ EqStart("begin")
    /\ ValIdle
    /\ PlIdle
    /\ SlvIdle

NextSandbox == Begin \/ Normalize \/ ValidateAst \/ Compile \/ TestEval

SpecSandbox == InitSandbox /\ [][NextSandbox]_vars

(* Resolver requests: get_ode_function, get_difference_function and          *)
(* get_vector_ode_function with every combination of present, empty and     *)
(* absent arguments                                                         *)
ResTexts == {<<>>, <<"y0">>, <<"lam", "y0">>}
ResNames == {NoneName, "", "harmonic_oscillator", "geometric_growth", "missing", "np"}

InitResolver ==
    /\ \/ \E e \in {"get_ode_function", "get_difference_function"},
             ts \in {<<>>} \cup {<<t>> : t \in ResTexts},
             f \in ResNames, o \in 1..MaxOrder :
             args = Request(e, ts # <<>>, ts, f, o, NoParams, 1, <<"x">>)
       \/ \E given \in BOOLEAN, ts \in SeqsUpTo(ResTexts, MaxComp),
             f \in ResNames, o \in 1..MaxOrder, c \in 1..MaxComp :
             /\ ~given => ts = <<>>
             /\ args = Request("get_vector_ode_function", given, ts, f, o, NoParams, c, <<"x">>)
    /\ EqStart("check")
    /\ ValIdle
    /\ PlIdle
    /\ SlvIdle

NextResolver == CheckArgs \/ ImportFunction \/ Begin \/ Normalize \/ ValidateAst \/ Compile \/ TestEval

SpecResolver == InitResolver /\ [][NextResolver]_vars

(* Right-hand-side requests: the parsers on a fixed set of expressions, and  *)
(* then the returned callable on every state of States                      *)
RhsTexts == {<<"0">>, <<"y0">>, <<"y1">>, <<"x", "+", "y0">>, <<"k", "+", "y1">>,
             <<"y0", "+", "y1">>, <<"sin">>, <<"ysort", "or", "y0">>, <<"ytofile">>, <<"ycls">>,
             <<"x", "and", "y1">>, <<"y0", "and", "w">>}
VecRhsTexts == {<<"0">>, <<"y0">>, <<"y1">>, <<"x", "+", "y1">>, <<"ysort", "or", "0">>}
RhsParams == {NoParams, "k" :> Num(2), [name \in {"x", "n", "y"} |-> Num(2)]}

InitRhs ==
    /\ \/ \E e \in Parsers \ {"parse_vector_expression"},
             t \in RhsTexts, o \in 1..MaxOrder, p \in RhsParams :
             args = Request(e, TRUE, <<t>>, NoneName, o, p, 1, <<"x", "y">>)
       \/ \E ts \in SeqsUpTo(VecRhsTexts, MaxComp), o \in 1..MaxOrder, p \in RhsParams :
             args = Request("parse_vector_expression", TRUE, ts, NoneName, o, p, Len(ts), <<"x">>)
    /\ EqStart("begin")
    /\ ValIdle
    /\ PlIdle
    /\ SlvIdle

NextRhs == Begin \/ Normalize \/ ValidateAst \/ Compile \/ TestEval \/ CallRhs

SpecRhs == InitRhs /\ [][NextRhs]_vars

(* Validator requests: validate_all_inputs on every combination of a valid   *)
(* and an invalid value of each argument, with and without x0_list          *)
ValExpressions == {[given |-> FALSE, text |-> <<>>], [given |-> TRUE, text |-> <<"ws">>],
                   [given |-> TRUE, text |-> <<"y0">>], [given |-> TRUE, text |-> <<"lam", "y0">>]}
ValDomains == {<<Fin(0), Fin(MaxVal)>>, <<Fin(MaxVal), Fin(0)>>, <<Fin(0), Fin(0)>>,
               <<NaN, Fin(MaxVal)>>, <<Fin(0), Inf(1)>>, <<Inf(1), Inf(1)>>}
ValParams == {NoneParams, [given |-> TRUE, values |-> <<>>],
              [given |-> TRUE, values |-> <<Fin(1)>>], [given |-> TRUE, values |-> <<Fin(1), Inf(1)>>]}
ValLocations == {<<Fin(1)>>, <<Fin(1), Fin(MaxVal + 1)>>}

InitValidator ==
    /\ \E e \in ValExpressions, d \in ValDomains, o \in 0..MaxOrder,
          y \in SeqsUpTo({Fin(1), NaN}, MaxOrder),
          np \in {MinPoints - 1, MinPoints, MaxPoints, MaxPoints + 1},
          m \in SOLVER_METHODS \cup {"iteration"}, p \in ValParams,
          more \in SUBSET {"x0_list"}, x0 \in ValLocations :
          /\ more = {} => x0 = <<Fin(1)>>
          /\ vargs = [keywords |-> (IF p = NoneParams THEN Required ELSE Signature) \cup more,
                      expression |-> e, order |-> o, x_min |-> d[1], x_max |-> d[2], y0 |-> y,
                      num_points |-> np, method |-> m, params |-> p, x0_list |-> x0]
    /\ vret = [state |-> "called", exc |-> "none", errors |-> <<>>]
    /\ args = NoCall
    /\ EqStart("idle")
    /\ PlIdle
    /\ SlvIdle

NextValidator == CallValidateAllInputs

SpecValidator == InitValidator /\ [][NextValidator]_vars

(* Pipeline requests *)
PipeExpressions == {[given |-> FALSE, text |-> <<>>], [given |-> TRUE, text |-> <<"y0">>],
                    [given |-> TRUE, text |-> <<"k">>], [given |-> TRUE, text |-> <<"sin">>],
                    [given |-> TRUE, text |-> <<"lam", "y0">>],
                    [given |-> TRUE, text |-> <<"ysort", "or", "y0">>]}
PipeVectors == {[given |-> FALSE, texts |-> <<>>], [given |-> TRUE, texts |-> <<<<"y0">>>>]}

InitPipeline ==
    /\ \E et \in {"ode", "difference", "pde", "vector_ode"},
          vs \in {<<>>, <<"x">>, <<"x", "y">>},
          e \in PipeExpressions, f \in {NoneName, "harmonic_oscillator", "geometric_growth"},
          o \in 1..MaxOrder, hi \in {0, MaxVal},
          np \in {2, 3, MinPoints}, m \in {"RK45", "iteration"},
          yb \in BOOLEAN, ve \in PipeVectors :
          req = [expression |-> e, function_name |-> f, order |-> o,
                 parameters |-> "k" :> Num(2), x_min |-> 0, x_max |-> hi,
                 y0 |-> [i \in 1..o |-> 1], n_points |-> np, method |-> m,
                 x0_list |-> <<>>, equation_type |-> et, variables |-> vs,
                 y_bounds |-> yb, n_points_y |-> 0,
                 vector_expressions |-> ve, vector_components |-> 1]
    /\ ppc = "start"
    /\ plog = <<>>
    /\ sol = [n |-> 0, rows |-> 0, success |-> FALSE, y |-> <<>>, error_metrics |-> NoMetrics]
    /\ pout = "none"
    /\ args = NoCall
    /\ EqStart("idle")
    /\ ValIdle
    /\ SlvIdle

NextPipeline ==
    \/ PValidate \/ PResolve
    \/ CheckArgs \/ ImportFunction \/ Begin \/ Normalize \/ ValidateAst \/ Compile \/ TestEval
    \/ PSolve \/ PStatistics \/ PPlot \/ PExport \/ PReturn

SpecPipeline == InitPipeline /\ [][NextPipeline]_vars

-----------------------------------------------------------------------------
(* Properties of the sandbox *)

(* the tree of a text holds a node kind outside the allow-list *)
DisallowedTree(text) ==
    LET tree == AstParse(text) IN tree.ok /\ ~(tree.nodes \subseteq _ALLOWED_NODE_TYPES)

(* text i is never compiled, nothing is evaluated, and the call ends in a rejection *)
RejectedUnevaluated(i) ==
    /\ Len(compiled) < i
    /\ nEval = 0
    /\ outcome # "callable"
    /\ pc = "done" => \/ outcome = "EquationParseError"
                      \/ outcome = "errors" /\ errs # <<>>

(* C1, as stated: a text whose own syntax tree holds a node kind outside the  *)
(* allow-list is rejected by every parser and by validate_expression, before *)
(* it is compiled or evaluated.                                             *)
C1_RawTextRejected ==
    \A i \in DOMAIN Texts : DisallowedTree(Texts[i]) => RejectedUnevaluated(i)

(* C1, amended: a text whose syntax tree after the normalisation of its       *)
(* Unicode escapes holds a node kind outside the allow-list is rejected by  *)
(* every parser and by validate_expression, for every order and parameter   *)
(* map, before it is compiled and before anything is evaluated.             *)
C1_NormalizedTextRejected ==
    \A i \in DOMAIN Texts :
        DisallowedTree(normalize_unicode_escapes(Texts[i])) => RejectedUnevaluated(i)

C1_Witness ==
    /\ pc = "done"
    /\ outcome = "EquationParseError"
    /\ args.entry = "parse_vector_expression"
    /\ Len(compiled) = 1
    /\ idx = 2
    /\ DisallowedTree(normd[2])
    /\ nEval = 0

(* C2: no accepted expression reaches I/O or reflection when it is evaluated  *)
C2_NoEscape == effects \cap {"io", "reflect"} = {}

(* The rule of C3 for one reading of "supplied": a callable is returned only  *)
(* when exactly one of the two is supplied; otherwise ValueError is raised, *)
(* before any parsing and any import.                                       *)
ExactlyOneRule(expr, name) ==
    /\ outcome = "callable" => (expr # name)
    /\ (expr = name) => /\ normd = <<>>
                        /\ compiled = <<>>
                        /\ nEval = 0
                        /\ imports = 0
                        /\ pc \in {"check", "done"}
                        /\ pc = "done" => outcome = "ValueError"

(* C3, as stated: the rule holds of the three resolvers, an expression (list) *)
(* being supplied when it is given and holds an expression, a function name *)
(* when it is not None.                                                     *)
C3_SuppliedNotNone ==
    args.entry \in Resolvers =>
        ExactlyOneRule(args.expression.given /\ args.expression.texts # <<>>,
                       args.function_name # NoneName)

(* C3, amended: the rule holds of the three resolvers, except that            *)
(* get_vector_ode_function takes an empty function name as not supplied.    *)
C3_ExactlyOne ==
    args.entry \in Resolvers =>
        ExactlyOneRule(args.expression.given /\ args.expression.texts # <<>>,
                       /\ args.function_name # NoneName
                       /\ args.entry = "get_vector_ode_function" => args.function_name # "")

C3_Witness ==
    /\ args.entry = "get_vector_ode_function"
    /\ args.expression.given /\ args.expression.texts # <<>>
    /\ args.function_name = "harmonic_oscillator"
    /\ pc = "done"
    /\ outcome = "ValueError"

(* the value of text on state y as passed, side effects set aside *)
ValueOn(text, var, x, y) == Float(Eval(text, LocalNs(Namespace(args.params), var, x), y).val).val

(* C4: the callable of parse_expression yields [y[1], ..., y[k-1], e(x, y)]    *)
(* for every accepted expression and every state, and leaves y as it was.   *)
C4_OrderReduction ==
    (args.entry = "parse_expression" /\ call.n > 0) =>
        /\ call.raised = "none"
        /\ Len(call.res) = args.order
        /\ \A i \in 1..(args.order - 1) : call.res[i] = call.yIn[i + 1]
        /\ call.res[args.order] = ValueOn(compiled[1], "x", call.x, call.yIn)
        /\ call.yOut = call.yIn

(* C5: the callable of parse_vector_expression works block by block:          *)
(* dydt[i*k + j] = y[i*k + j + 1], dydt[i*k + k - 1] is expression i on the  *)
(* full state, and every entry is assigned exactly once.                    *)
C5_BlockLayout ==
    (args.entry = "parse_vector_expression" /\ call.n > 0 /\ call.raised = "none") =>
        LET k == args.order
            m == Len(Texts)
        IN  /\ Len(call.res) = m * k
            /\ \A i \in 0..(m - 1) :
                 /\ \A j \in 0..(k - 2) : call.res[i * k + j + 1] = call.yIn[i * k + j + 2]
                 /\ call.res[i * k + k] = ValueOn(compiled[i + 1], "x", call.x, call.yIn)
            /\ \A pos \in 1..(m * k) :
                 Cardinality({w \in DOMAIN call.writes : call.writes[w] = pos}) = 1

(* C6: the layout of the docstring, y = [f_0 .. f_{n-1}, f_0' .. f_{n-1}']:   *)
(* for order 2, dydt[j] = y[n + j] and dydt[n + j] is expression j.  Stated *)
(* for the calls whose expressions have no side effect.                     *)
C6_DocstringLayout ==
    (/\ args.entry = "parse_vector_expression"
     /\ args.order = 2
     /\ call.n > 0
     /\ call.raised = "none"
     /\ effects = {}) =>
        LET n == Len(Texts)
        IN  \A j \in 0..(n - 1) :
               /\ call.res[j + 1] = call.yIn[n + j + 1]
               /\ call.res[n + j + 1] = ValueOn(compiled[j + 1], "x", call.x, call.yIn)


-----------------------------------------------------------------------------
(* Properties of the validator *)

Returned == vret.state = "done" /\ vret.exc = "none"

(* the wording of the messages of each check, in the order of the checks *)
CheckMessages ==
    <<{"Expression is empty", "Syntax error in expression", "Disallowed construct in expression"},
      {"x_min must be less than x_max", "Domain bounds must be finite numbers"},
      {"Expected initial condition(s)", "Initial condition is not a finite number"},
      {"Number of points must be at least 10", "Number of points must not exceed 1,000,000"},
      {"Unknown method"},
      {"Parameter is not a finite number"}>>

ExpressionBad(e) ==
    \/ ~e.given
    \/ Strip(e.text) = <<>>
    \/ ~AstParse(normalize_unicode_escapes(Strip(e.text))).ok
    \/ DisallowedTree(normalize_unicode_escapes(Strip(e.text)))

StrictlyOrdered(lo, hi) == lo.k = "fin" /\ hi.k = "fin" /\ lo.v < hi.v

ParamsGiven(a) == IF "params" \in a.keywords THEN a.params.values ELSE <<>>

(* check number c (1..6, in the order of CheckMessages) is violated by a *)
Violated(c, a) ==
    CASE c = 1 -> ExpressionBad(a.expression)
      [] c = 2 -> ~StrictlyOrdered(a.x_min, a.x_max)
      [] c = 3 -> Len(a.y0) # a.order \/ \E i \in DOMAIN a.y0 : a.y0[i].k # "fin"
      [] c = 4 -> a.num_points < MinPoints \/ a.num_points > MaxPoints
      [] c = 5 -> a.method \notin SOLVER_METHODS
      [] c = 6 -> \E i \in DOMAIN ParamsGiven(a) : ParamsGiven(a)[i].k # "fin"

CheckOf(m) == CHOOSE c \in DOMAIN CheckMessages : m.text \in CheckMessages[c]

ListedInvariants(a) ==
    /\ a.order >= 1
    /\ Len(a.y0) = a.order
    /\ StrictlyOrdered(a.x_min, a.x_max)
    /\ a.num_points \in MinPoints..MaxPoints
    /\ a.method \in SOLVER_METHODS
    /\ \A i \in DOMAIN ParamsGiven(a) : ParamsGiven(a)[i].k = "fin"

(* C8: validate_all_inputs returns the empty list exactly when the inputs   *)
(* satisfy every listed invariant.  Stated for the calls without x0_list,   *)
(* with an expression the sandbox accepts and finite initial values.        *)
C8_EmptyIffInvariants ==
    (/\ vret.state = "done"
     /\ BindOk(vargs.keywords)
     /\ ~ExpressionBad(vargs.expression)
     /\ \A i \in DOMAIN vargs.y0 : vargs.y0[i].k = "fin") =>
        ((Returned /\ vret.errors = <<>>) <=> ListedInvariants(vargs))

Inside(loc, lo, hi) == GreaterEq(loc, lo) /\ GreaterEq(hi, loc)

(* C9: a call of validate_all_inputs with x0_list returns a list, which is  *)
(* not empty when a location lies outside [x_min, x_max]                    *)
C9_LocationsChecked ==
    (vret.state = "done" /\ "x0_list" \in vargs.keywords) =>
        /\ vret.exc = "none"
        /\ (\E i \in DOMAIN vargs.x0_list : ~Inside(vargs.x0_list[i], vargs.x_min, vargs.x_max))
              => vret.errors # <<>>

-----------------------------------------------------------------------------
(* Properties of the pipeline *)

(* C10: a difference request with a valid recurrence, n_min < n_max, order  *)
(* initial values and the method "iteration" ends with a SolverResult of    *)
(* n_max - n_min + 1 samples and order rows                                 *)
C10_DifferenceIterationSolved ==
    (/\ ppc = "done"
     /\ req.equation_type = "difference"
     /\ req.method = "iteration"
     /\ req.variables = <<>>
     /\ req.expression = [given |-> TRUE, text |-> <<"y0">>]
     /\ req.function_name = NoneName
     /\ ~req.vector_expressions.given
     /\ req.x_min < req.x_max
     /\ Len(req.y0) = req.order
     /\ req.n_points >= MinPoints) =>
        /\ pout = "SolverResult"
        /\ sol.n = req.x_max - req.x_min + 1 /\ sol.rows = req.order /\ sol.success

-----------------------------------------------------------------------------
(* solver/ode_solver.py: solve_ode and solve_multipoint.  The integrator    *)
(* (scipy solve_ivp) and the root finder (scipy fsolve) are outside the     *)
(* repository: what they return is a choice over the outcomes they have.    *)

MaxConds  == 2     \* longest list of multipoint conditions
MaxTrials == 2     \* most trial integrations the root finder asks for

NumPoints == 1000  \* SOLVER_NUM_POINTS
MinFine   == 2000  \* the least size of the working grid of the shooting method

Max2(a, b) == IF a >= b THEN a ELSE b

(* np.linspace(lo, hi, n), and a t_eval of None *)
Linspace(lo, hi, n) == [given |-> TRUE, lo |-> lo, hi |-> hi, n |-> n]
NoGrid == [given |-> FALSE, lo |-> 0, hi |-> 0, n |-> 0]

(* if t_eval is None: t_eval = np.linspace(x_min, x_max, SOLVER_NUM_POINTS) *)
DefaultGrid(t_eval, lo, hi) == IF t_eval.given THEN t_eval ELSE Linspace(lo, hi, NumPoints)

(* one condition (k, x_i, a_i) *)
Condition(k, xi, ai) == [k |-> k, x |-> xi, a |-> ai]

(* all(abs(xi - x_min) < 1e-12 for (_, xi, _) in conditions), on integers *)
all_at_start(conditions, x_min) == \A i \in DOMAIN conditions : conditions[i].x = x_min

(* sorted(conditions, key=lambda c: c[0]): stable, by component index *)
RECURSIVE InsertCond(_, _)
InsertCond(c, s) ==
    IF s = <<>> THEN <<c>>
    ELSE IF Head(s).k <= c.k THEN <<Head(s)>> \o InsertCond(c, Tail(s)) ELSE <<c>> \o s

RECURSIVE SortedConds(_)
SortedConds(s) ==
    IF s = <<>> THEN <<>>
    ELSE InsertCond(s[Len(s)], SortedConds(SubSeq(s, 1, Len(s) - 1)))

(* y0 = [a for (_, _, a) in sorted(conditions, key=lambda c: c[0])] *)
StartState(conditions) ==
    LET s == SortedConds(conditions) IN [i \in 1..Len(s) |-> s[i].a]

(* y0_guess = np.zeros(order); for k, _, ai in conditions: y0_guess[k] = ai *)
RECURSIVE y0_guess(_, _)
y0_guess(conditions, order) ==
    IF conditions = <<>> THEN Zeros(order)
    ELSE LET c == conditions[Len(conditions)] IN
         [y0_guess(SubSeq(conditions, 1, Len(conditions) - 1), order) EXCEPT ![c.k + 1] = c.a]

(* x_max_needed = max(max(xi for (_, xi, _) in conditions), x_max) *)
RECURSIVE x_max_needed(_, _)
x_max_needed(conditions, x_max) ==
    IF conditions = <<>> THEN x_max
    ELSE Max2(Head(conditions).x, x_max_needed(Tail(conditions), x_max))

(* t_eval_fine = np.linspace(x_min, x_max_needed, max(2000, len(t_eval) * 2)) *)
t_eval_fine(conditions, x_min, x_max, t_eval) ==
    Linspace(x_min, x_max_needed(conditions, x_max), Max2(MinFine, t_eval.n * 2))

(* one call of solve_ivp *)
IvpCall(by, lo, hi, y0, t_eval) ==
    [by |-> by, t_span |-> <<lo, hi>>, y0 |-> y0, t_eval |-> t_eval]

(* one call of solve_ode *)
OdeCall(lo, hi, y0, t_eval) == [t_span |-> <<lo, hi>>, y0 |-> y0, t_eval |-> t_eval]

(* what solve_ivp hands back: an OdeResult with success and message, or an  *)
(* exception of the right-hand side or of the argument checks               *)
Diagnostics == {"The solver successfully reached the end of the integration interval.",
                "Required step size is less than spacing between numbers."}
IvpOutcomes ==
    {[raised |-> "none", success |-> TRUE, message |-> "The solver successfully reached the end of the integration interval."],
     [raised |-> "none", success |-> FALSE, message |-> "Required step size is less than spacing between numbers."],
     [raised |-> "ValueError", success |-> FALSE, message |-> ""]}

(* what fsolve hands back: ier with its message and the state it stopped at *)
RootFlags == {1, 2, 5}
RootMessage(ier) ==
    CASE ier = 1 -> "The solution converged."
      [] ier = 2 -> "The number of calls to function has reached maxfev."
      [] OTHER   -> "The iteration is not making good progress."

NoSolution == [success |-> FALSE, message |-> "", method_used |-> "", call |-> OdeCall(0, 0, <<>>, NoGrid)]

(* ODESolution(x=sol.t, y=sol.y, success=sol.success, message=sol.message, ...) *)
ODESolution(s, method, c) ==
    [success |-> s.success, message |-> s.message, method_used |-> method, call |-> c]

(* the end of solve_ode without the success test *)
OdeReturnUnchecked(s, method, c) ==
    IF s.raised # "none"
    THEN [out |-> s.raised, text |-> <<>>, result |-> NoSolution]
    ELSE [out |-> "ODESolution", text |-> <<>>, result |-> ODESolution(s, method, c)]

(* the end of solve_ode: the result is built, then returned unless          *)
(* sol.success is false                                                     *)
OdeReturn(s, method, c) ==
    IF s.raised # "none"
    THEN [out |-> s.raised, text |-> <<>>, result |-> NoSolution]
    ELSE IF ~s.success
    THEN [out |-> "SolverFailedError",
          text |-> <<"Solver failed (", method, "): ", s.message>>,
          result |-> NoSolution]
    ELSE [out |-> "ODESolution", text |-> <<>>, result |-> ODESolution(s, method, c)]

(* a final integration that starts from zero instead of the state found *)
ShootingCallFromZero(x_min, x_max, y0_opt, t_eval) ==
    OdeCall(x_min, x_max, Zeros(Len(y0_opt)), t_eval)

(* return solve_ode(ode_func, (x_min, x_max), y0_opt.tolist(), ..., t_eval=t_eval, ...) *)
ShootingCall(x_min, x_max, y0_opt, t_eval) == OdeCall(x_min, x_max, y0_opt, t_eval)

(* the call ends *)
OdeEnd(r) ==
    ode' = [ode EXCEPT !.pc = "done", !.out = r.out, !.text = r.text, !.result = r.result]

(* solve_multipoint up to the call of fsolve or of solve_ode *)
SolveMultipoint ==
    /\ ode.pc = "solve_multipoint"
    /\ LET te == DefaultGrid(ode.t_eval, ode.x_min, ode.x_max) IN
       IF all_at_start(ode.conditions, ode.x_min)
       THEN ode' = [ode EXCEPT !.pc = "solve_ode",
                               !.solves = Append(@, OdeCall(ode.x_min, ode.x_max,
                                                            StartState(ode.conditions), te))]
       ELSE IF \E i \in DOMAIN ode.conditions : ode.conditions[i].k >= ode.order
       THEN OdeEnd([out |-> "IndexError", text |-> <<>>, result |-> NoSolution])
       ELSE ode' = [ode EXCEPT !.pc = "fsolve",
                               !.guess = y0_guess(ode.conditions, ode.order),
                               !.fine = t_eval_fine(ode.conditions, ode.x_min, ode.x_max, te)]
    /\ UNCHANGED <<eqVars, valVars, plVars, dif, pde, reg, git>>

(* the states the root finder tries: the guess first, then states near it *)
TrialStates == IF ode.ivp = <<>> THEN {ode.guess} ELSE {ode.guess, [i \in DOMAIN ode.guess |-> 1]}

(* _residuals: one trial integration over (x_min, x_max_needed) *)
Residuals ==
    /\ ode.pc = "fsolve"
    /\ Len(ode.ivp) < MaxTrials
    /\ \E y \in TrialStates :
          ode' = [ode EXCEPT !.ivp = Append(@, IvpCall("_residuals", ode.x_min, ode.fine.hi,
                                                       y, ode.fine))]
    /\ UNCHANGED <<eqVars, valVars, plVars, dif, pde, reg, git>>

(* fsolve returns; ier # 1 raises, otherwise solve_ode is called *)
Fsolve ==
    /\ ode.pc = "fsolve"
    /\ ode.ivp # <<>>
    /\ IF Len(ode.conditions) # ode.order
       THEN OdeEnd([out |-> "TypeError", text |-> <<>>, result |-> NoSolution])
       ELSE \E ier \in RootFlags, y \in TrialStates :
               IF ier # 1
               THEN ode' = [ode EXCEPT !.pc = "done", !.ier = ier, !.out = "SolverFailedError",
                                       !.text = <<"Shooting method did not converge: ",
                                                  RootMessage(ier)>>]
               ELSE ode' = [ode EXCEPT !.pc = "solve_ode", !.ier = ier, !.y0_opt = y,
                                       !.solves = Append(@, ShootingCall(ode.x_min, ode.x_max, y,
                                                   DefaultGrid(ode.t_eval, ode.x_min, ode.x_max)))]
    /\ UNCHANGED <<eqVars, valVars, plVars, dif, pde, reg, git>>

(* solve_ode: the defaults, the call of solve_ivp, the result *)
SolveOde ==
    /\ ode.pc = "solve_ode"
    /\ LET c  == ode.solves[Len(ode.solves)]
           te == DefaultGrid(c.t_eval, c.t_span[1], c.t_span[2]) IN
       \E s \in IvpOutcomes :
          LET r == OdeReturn(s, ode.method, c) IN
          ode' = [ode EXCEPT !.pc = "done", !.sol = s,
                             !.ivp = Append(@, IvpCall("solve_ode", c.t_span[1], c.t_span[2],
                                                       c.y0, te)),
                             !.out = r.out, !.text = r.text, !.result = r.result]
    /\ UNCHANGED <<eqVars, valVars, plVars, dif, pde, reg, git>>

(* a call of solve_ode or of solve_multipoint about to start *)
OdeRequest(entry, conditions, order, x_min, x_max, t_eval, solves) ==
    [pc |-> entry, entry |-> entry, conditions |-> conditions, order |-> order,
     x_min |-> x_min, x_max |-> x_max, t_eval |-> t_eval, method |-> "RK45",
     solves |-> solves, ivp |-> <<>>, guess |-> <<>>, fine |-> NoGrid,
     ier |-> 0, y0_opt |-> <<>>, sol |-> [raised |-> "none", success |-> FALSE, message |-> ""],
     out |-> "none", text |-> <<>>, result |-> NoSolution]

OdeConditions ==
    {Condition(k, xi, ai) : k \in 0..(MaxOrder - 1), xi \in {0, MaxVal + 1}, ai \in {1, 2}}
OdeGrids == {NoGrid, Linspace(0, MaxVal, 3)}

InitOde ==
    /\ \/ \E cs \in SeqsUpTo(OdeConditions, MaxConds), o \in 1..MaxOrder, te \in OdeGrids :
             ode = OdeRequest("solve_multipoint", cs, o, 0, MaxVal, te, <<>>)
       \/ \E o \in 1..MaxOrder, te \in OdeGrids :
             ode = OdeRequest("solve_ode", <<>>, o, 0, MaxVal, te,
                              <<OdeCall(0, MaxVal, [i \in 1..o |-> 1], te)>>)
    /\ dif = [pc |-> "idle"]
    /\ pde = [pc |-> "idle"]
    /\ reg = [pc |-> "idle"]
    /\ git = [pc |-> "idle"]
    /\ args = NoCall
    /\ EqStart("idle")
    /\ ValIdle
    /\ PlIdle

NextOde == SolveMultipoint \/ Residuals \/ Fsolve \/ SolveOde

SpecOde == InitOde /\ [][NextOde]_vars

-----------------------------------------------------------------------------
(* Properties of solve_ode and solve_multipoint *)

(* the call in progress has gone through solve_ode *)
OdeSolved == ode.pc = "done" /\ ode.ivp # <<>> /\ ode.ivp[Len(ode.ivp)].by = "solve_ode"

(* the calls of solve_ivp made by f, in order *)
IvpBy(f) == SelectSeq(ode.ivp, LAMBDA c : c.by = f)

(* C11: solve_ode never returns an unsuccessful solution: when the          *)
(* integrator reports failure the call raises SolverFailedError with the    *)
(* integrator's diagnostic in its message, and every ODESolution returned   *)
(* has success = true                                                       *)
C11_FailureRaises ==
    OdeSolved =>
        /\ (ode.sol.raised = "none" /\ ~ode.sol.success) =>
              /\ ode.out = "SolverFailedError"
              /\ ode.sol.message \in Range(ode.text)
        /\ ode.out = "ODESolution" => ode.result.success

C11_Witness ==
    /\ OdeSolved
    /\ ode.sol.raised = "none" /\ ~ode.sol.success
    /\ ode.out = "SolverFailedError"

(* every condition of the solve_multipoint call is anchored at x_min *)
Anchored ==
    /\ ode.pc # "idle"
    /\ ode.entry = "solve_multipoint"
    /\ all_at_start(ode.conditions, ode.x_min)

(* C12: when every condition is anchored at x_min, no root finding and no   *)
(* trial integration takes place and exactly one solve_ode call is made,    *)
(* with a y0 of length order in which y0[k] = a_i for every condition       *)
C12_AnchoredPlacesTargets ==
    (Anchored /\ ode.pc # "solve_multipoint") =>
        /\ ode.ier = 0
        /\ IvpBy("_residuals") = <<>>
        /\ Len(ode.solves) = 1
        /\ Len(ode.solves[1].y0) = ode.order
        /\ \A i \in DOMAIN ode.conditions :
              ode.solves[1].y0[ode.conditions[i].k + 1] = ode.conditions[i].a

(* the solve_multipoint call has a condition away from x_min and fsolve     *)
(* has returned                                                             *)
Shot ==
    /\ ode.pc # "idle"
    /\ ode.entry = "solve_multipoint"
    /\ ~all_at_start(ode.conditions, ode.x_min)
    /\ ode.ier # 0

(* C13: with a condition away from x_min, non-convergence raises            *)
(* SolverFailedError and no final integration is made; convergence is       *)
(* followed by exactly one final integration, after the root finding, from  *)
(* the state found, over [x_min, x_max] at the caller's sample points, and  *)
(* its result is what the call gives back                                   *)
C13_ShootingThenOneIntegration ==
    Shot =>
        /\ ode.ier # 1 =>
              /\ ode.pc = "done"
              /\ ode.out = "SolverFailedError"
              /\ ode.solves = <<>>
              /\ IvpBy("solve_ode") = <<>>
        /\ ode.ier = 1 =>
              /\ ode.solves = <<OdeCall(ode.x_min, ode.x_max, ode.y0_opt,
                                        DefaultGrid(ode.t_eval, ode.x_min, ode.x_max))>>
              /\ ode.pc = "solve_ode" => IvpBy("solve_ode") = <<>>
              /\ ode.pc = "done" =>
                    /\ IvpBy("solve_ode") = <<ode.ivp[Len(ode.ivp)]>>
                    /\ ode.ivp[Len(ode.ivp)] =
                          IvpCall("solve_ode", ode.x_min, ode.x_max, ode.y0_opt,
                                  DefaultGrid(ode.t_eval, ode.x_min, ode.x_max))
                    /\ ode.out = "ODESolution" =>
                          ode.result = ODESolution(ode.sol, ode.method, ode.solves[1])
                    /\ ode.out # "ODESolution" =>
                          ode.out = OdeReturn(ode.sol, ode.method, ode.solves[1]).out

C13_Witness ==
    /\ Shot
    /\ ode.ier = 1
    /\ ode.pc = "done"
    /\ ode.out = "ODESolution"
    /\ ode.y0_opt # Zeros(ode.order)
    /\ Len(IvpBy("_residuals")) = MaxTrials

-----------------------------------------------------------------------------
(* solver/difference_solver.py: solve_difference, one step per iteration of *)
(* its loop.  The recurrence is a callable parse_difference_expression      *)
(* returns; arrays are sequences, y_arr is the sequence of its columns.     *)

MaxSteps == 3      \* largest n_max - n_min

(* str(exc) *)
ExcText(exc) ==
    CASE exc = "IndexError" -> "index 1 is out of bounds for axis 0 with size 1"
      [] exc = "TypeError"  -> "float() argument must be a string or a real number"
      [] exc = "ValueError" -> "could not convert string to float"
      [] OTHER              -> "name is not defined"

(* np.arange(n_min, n_max + 1) *)
Arange(lo, hi) == [i \in 1..(hi - lo + 1) |-> lo + i - 1]

(* a[:k] *)
Prefix(a, k) == SubSeq(a, 1, IF k < Len(a) THEN k ELSE Len(a))

(* np.roll(state, -1); state[-1] = next_val *)
Rolled(state, next_val) == Append(Tail(state), next_val)

(* the test for an empty range with equal bounds let through *)
EmptyRangeStrict(n_min, n_max) == n_min > n_max

(* if n_min >= n_max *)
EmptyRange(n_min, n_max) == n_min >= n_max

(* DifferenceSolution(n=..., y=..., success=..., message=...) *)
DifferenceResult(n, y, success, message) ==
    [n |-> n, y |-> y, success |-> success, message |-> message]

NoDifference == DifferenceResult(<<>>, <<>>, FALSE, "")

(* the call ends with a DifferenceSolution *)
DifReturns(r) == dif' = [dif EXCEPT !.pc = "done", !.out = "DifferenceSolution", !.result = r]

(* solve_difference up to its loop *)
DifStart ==
    /\ dif.pc = "start"
    /\ IF EmptyRange(dif.n_min, dif.n_max)
       THEN DifReturns(DifferenceResult(<<>>, <<>>, FALSE, "n_min must be less than n_max"))
       ELSE LET n_points == dif.n_max - dif.n_min + 1
                first    == Prefix(dif.y0, dif.order) IN
            IF Len(first) \notin {dif.order, 1}
            THEN dif' = [dif EXCEPT !.pc = "done", !.out = "ValueError"]
            ELSE dif' = [dif EXCEPT !.pc = "loop", !.i = 1,
                                    !.n_arr = Arange(dif.n_min, dif.n_max),
                                    !.y_arr = [c \in 1..n_points |->
                                                  IF c = 1 THEN [j \in 1..dif.order |->
                                                                    first[IF Len(first) = 1 THEN 1 ELSE j]]
                                                  ELSE Zeros(dif.order)],
                                    !.written = {0},
                                    !.state = first]
    /\ UNCHANGED <<eqVars, valVars, plVars, ode, pde, reg, git>>

(* except Exception as exc: the history up to column last_i is returned *)
DifExcept(exc, last_i) ==
    dif' = [dif EXCEPT !.pc = "done", !.out = "DifferenceSolution", !.exc = exc,
                       !.last_i = last_i,
                       !.result = DifferenceResult(Prefix(dif.n_arr, last_i + 1),
                                                   Prefix(dif.y_arr, last_i + 1),
                                                   FALSE, ExcText(exc))]

(* the rest of iteration i once the recurrence gave r *)
DifStepped(i, n_curr, r) ==
    IF r.raised # "none" THEN DifExcept(r.raised, i)
    ELSE IF r.yOut = <<>> THEN DifExcept("IndexError", i)
    ELSE dif' = [dif EXCEPT !.i = i + 1, !.last_i = i,
                            !.state = Rolled(r.yOut, r.res[1]),
                            !.y_arr[i + 1] = [j \in 1..dif.order |->
                                                 Rolled(r.yOut, r.res[1])[IF Len(r.yOut) = 1 THEN 1 ELSE j]],
                            !.written = @ \cup {i},
                            !.calls = Append(@, [n |-> n_curr, y |-> dif.state, value |-> r.res[1]])]

(* one iteration of the loop *)
DifStep ==
    /\ dif.pc = "loop"
    /\ dif.i <= dif.n_max - dif.n_min
    /\ DifStepped(dif.i, dif.n_min + dif.i - 1,
                  recur_func(dif.text, dif.order, Namespace(NoParams),
                             dif.n_min + dif.i - 1, dif.state))
    /\ UNCHANGED <<eqVars, valVars, plVars, ode, pde, reg, git>>

(* the loop is over: DifferenceSolution(n=n_arr, y=y_arr, success=True, ...) *)
DifDone ==
    /\ dif.pc = "loop"
    /\ dif.i > dif.n_max - dif.n_min
    /\ DifReturns(DifferenceResult(dif.n_arr, dif.y_arr, TRUE, "Solved successfully"))
    /\ UNCHANGED <<eqVars, valVars, plVars, ode, pde, reg, git>>

(* a call of solve_difference about to start *)
DifRequest(text, n_min, n_max, y0, order) ==
    [pc |-> "start", text |-> text, n_min |-> n_min, n_max |-> n_max, y0 |-> y0,
     order |-> order, i |-> 0, last_i |-> 0, n_arr |-> <<>>, y_arr |-> <<>>,
     written |-> {}, state |-> <<>>, calls |-> <<>>, exc |-> "none",
     out |-> "none", result |-> NoDifference]

(* recurrences: y[0], y[0] + y[1], n or sin, y[0] or sin, y[1],             *)
(* y.sort() or y[0]                                                         *)
Recurrences == {<<"y0">>, <<"y0", "+", "y1">>, <<"n", "or", "sin">>, <<"y0", "or", "sin">>,
                <<"y1">>, <<"ysort", "or", "y0">>}

InitDifference ==
    /\ \E t \in Recurrences, lo \in {-1, 0}, len \in -1..MaxSteps,
          y \in SeqsUpTo(0..MaxVal, MaxOrder), o \in 1..MaxOrder :
          dif = DifRequest(t, lo, lo + len, y, o)
    /\ ode = [pc |-> "idle"]
    /\ pde = [pc |-> "idle"]
    /\ reg = [pc |-> "idle"]
    /\ git = [pc |-> "idle"]
    /\ args = NoCall
    /\ EqStart("idle")
    /\ ValIdle
    /\ PlIdle

NextDifference == DifStart \/ DifStep \/ DifDone

SpecDifference == InitDifference /\ [][NextDifference]_vars

-----------------------------------------------------------------------------
(* Properties of solve_difference *)

(* C14: with n_min >= n_max the call returns a DifferenceSolution with      *)
(* success = false and empty n and y, the recurrence is never called and    *)
(* nothing is raised                                                        *)
C14_EmptyRangeFails ==
    (dif.pc = "done" /\ dif.n_min >= dif.n_max) =>
        /\ dif.out = "DifferenceSolution"
        /\ ~dif.result.success
        /\ dif.result.n = <<>>
        /\ dif.result.y = <<>>
        /\ dif.calls = <<>>

C14_Witness ==
    /\ dif.pc = "done"
    /\ dif.n_min = dif.n_max
    /\ dif.out = "DifferenceSolution"
    /\ ~dif.result.success

(* the recurrence raised at step last_i *)
DifFailed == dif.pc = "done" /\ dif.n_min < dif.n_max /\ dif.exc # "none"

(* C15: if the recurrence raises at step i, the call does not raise: it     *)
(* returns success = false with the exception text as message, and n and y  *)
(* hold the history computed before the failure, the initial column and one *)
(* column per completed step, i columns in all, every one of them a window  *)
(* that was computed                                                        *)
C15_FailureKeepsHistory ==
    DifFailed =>
        /\ dif.out = "DifferenceSolution"
        /\ ~dif.result.success
        /\ dif.result.message = ExcText(dif.exc)
        /\ Len(dif.result.n) = dif.last_i
        /\ Len(dif.result.y) = dif.last_i
        /\ \A c \in DOMAIN dif.result.y :
              /\ c - 1 \in dif.written
              /\ dif.result.y[c] = dif.y_arr[c]
        /\ \A c \in 1..dif.last_i : c \in DOMAIN dif.result.y

(* the call succeeded on a proper range with len(y0) = order *)
DifSolved ==
    /\ dif.pc = "done"
    /\ dif.out = "DifferenceSolution"
    /\ dif.result.success
    /\ dif.n_min < dif.n_max
    /\ Len(dif.y0) = dif.order

(* C16: on success with n_min < n_max and len(y0) = order, n is n_min..n_max *)
(* ascending, y has shape (order, n_max - n_min + 1), column 0 is y0, the   *)
(* recurrence was called once for each n in n_min..n_max - 1 in ascending   *)
(* order with the window of column n - n_min, and column i + 1 is column i  *)
(* shifted left with the result appended, so that y[j][i] = y[0][i + j]     *)
C16_SlidingWindow ==
    DifSolved =>
        LET y == dif.result.y
            n_points == dif.n_max - dif.n_min + 1 IN
        /\ dif.result.n = [i \in 1..n_points |-> dif.n_min + i - 1]
        /\ Len(y) = n_points
        /\ \A c \in DOMAIN y : Len(y[c]) = dif.order
        /\ y[1] = dif.y0
        /\ Len(dif.calls) = n_points - 1
        /\ \A i \in DOMAIN dif.calls :
              /\ dif.calls[i].n = dif.n_min + i - 1
              /\ dif.calls[i].y = y[i]
              /\ y[i + 1] = Append(Tail(y[i]), dif.calls[i].value)
        /\ \A i \in 1..n_points, j \in 1..dif.order :
              i + j - 1 <= n_points => y[i][j] = y[i + j - 1][1]

-----------------------------------------------------------------------------
(* solver/pde_solver.py: solve_pde_2d, one step per interior node of the    *)
(* assembly, one for the sparse solve and one for the fill.  u is the       *)
(* sequence of its ny rows of nx entries, so u[j + 1][i + 1] is u[j, i].    *)
(* The grid spacings of the requests are whole numbers, and the matrix and  *)
(* the right-hand side are kept in units of 1 / (hx*hx*hy*hy), which keeps  *)
(* every coefficient a whole number.  The sparse solver (scipy spsolve) is  *)
(* outside the repository: it raises or returns a vector, the zero vector   *)
(* when the right-hand side is zero and the matrix is non-singular.         *)

MaxGrid == 4       \* largest nx and ny

(* if nx < 3 and ny < 3: a test that lets one short axis through *)
TooSmallBoth(nx, ny) == nx < 3 /\ ny < 3

(* if nx < 3 or ny < 3 *)
TooSmall(nx, ny) == nx < 3 \/ ny < 3

(* hx = (x_max - x_min) / (nx - 1) if nx > 1 else 1.0 *)
Spacing(lo, hi, n) == IF n > 1 THEN (hi - lo) \div (n - 1) ELSE 1

(* bc_values: None, or an array of shape (ny, nx) *)
BcValue(bc, i, j) ==
    CASE bc = "ones" -> 1
      [] bc = "ramp" -> i + 2 * j + 1
      [] OTHER       -> 0

(* a field that starts at one instead of zero *)
InitialFieldOnes(bc, nx, ny) ==
    [j \in 1..ny |-> [i \in 1..nx |-> IF bc = "None" THEN 1 ELSE BcValue(bc, i - 1, j - 1)]]

(* u = np.zeros((ny, nx)); if bc_values is not None: u[:] = bc_values *)
InitialField(bc, nx, ny) ==
    [j \in 1..ny |-> [i \in 1..nx |-> IF bc = "None" THEN 0 ELSE BcValue(bc, i - 1, j - 1)]]

(* k_idx(i, j) *)
k_idx(i, j, nx) == (j - 1) * (nx - 2) + (i - 1)

(* the node (i, j) of the k-th pass of the loops, j outermost *)
NodeOf(k, nx) == [i |-> (k % (nx - 2)) + 1, j |-> (k \div (nx - 2)) + 1]

(* cx = 1.0 / (hx * hx), cy = 1.0 / (hy * hy), in units of 1 / (hx*hx*hy*hy) *)
cx(hx, hy) == hy * hy
cy(hx, hy) == hx * hx

(* rows.append(r); cols.append(c); data.append(v) *)
Triplet(r, c, v) == [r |-> r, c |-> c, v |-> v]

(* the entries one interior node adds to rows, cols and data *)
NodeTriplets(i, j, nx, ny, hx, hy) ==
    <<Triplet(k_idx(i, j, nx), k_idx(i, j, nx), 2 * (cx(hx, hy) + cy(hx, hy)))>>
    \o (IF i > 1      THEN <<Triplet(k_idx(i, j, nx), k_idx(i - 1, j, nx), -cx(hx, hy))>> ELSE <<>>)
    \o (IF i < nx - 2 THEN <<Triplet(k_idx(i, j, nx), k_idx(i + 1, j, nx), -cx(hx, hy))>> ELSE <<>>)
    \o (IF j > 1      THEN <<Triplet(k_idx(i, j, nx), k_idx(i, j - 1, nx), -cy(hx, hy))>> ELSE <<>>)
    \o (IF j < ny - 2 THEN <<Triplet(k_idx(i, j, nx), k_idx(i, j + 1, nx), -cy(hx, hy))>> ELSE <<>>)

(* every neighbour of the node adds its value to b[k], interior or not *)
NodeNeighbours(u, i, j, nx, ny, hx, hy) ==
      cx(hx, hy) * u[j + 1][i] + cx(hx, hy) * u[j + 1][i + 2]
    + cy(hx, hy) * u[j][i + 1] + cy(hx, hy) * u[j + 2][i + 1]

(* what the boundary neighbours of one interior node add to b[k] *)
NodeBoundary(u, i, j, nx, ny, hx, hy) ==
      (IF i > 1      THEN 0 ELSE cx(hx, hy) * u[j + 1][i])
    + (IF i < nx - 2 THEN 0 ELSE cx(hx, hy) * u[j + 1][i + 2])
    + (IF j > 1      THEN 0 ELSE cy(hx, hy) * u[j][i + 1])
    + (IF j < ny - 2 THEN 0 ELSE cy(hx, hy) * u[j + 2][i + 1])

(* the matrix of the triplets: entry (r, c), the sum of row r off the       *)
(* diagonal in absolute value, and the rows reachable from a set of rows    *)
RECURSIVE Entry(_, _, _)
Entry(A, r, c) ==
    IF A = <<>> THEN 0
    ELSE (IF Head(A).r = r /\ Head(A).c = c THEN Head(A).v ELSE 0) + Entry(Tail(A), r, c)

RECURSIVE OffDiagonal(_, _)
OffDiagonal(A, r) ==
    IF A = <<>> THEN 0
    ELSE (IF Head(A).r = r /\ Head(A).c # r
          THEN (IF Head(A).v < 0 THEN -Head(A).v ELSE Head(A).v) ELSE 0)
         + OffDiagonal(Tail(A), r)

RECURSIVE Reach(_, _)
Reach(A, S) ==
    LET T == S \cup {A[t].c : t \in {t \in DOMAIN A : A[t].r \in S /\ A[t].v # 0}}
    IN  IF T = S THEN S ELSE Reach(A, T)

(* a matrix that is irreducibly diagonally dominant is non-singular: every  *)
(* row is dominated by its diagonal, one row strictly, and every row is     *)
(* reachable from the first                                                 *)
NonSingular(A, n) ==
    /\ \A r \in 0..(n - 1) : Entry(A, r, r) >= OffDiagonal(A, r)
    /\ \E r \in 0..(n - 1) : Entry(A, r, r) > OffDiagonal(A, r)
    /\ Reach(A, {0}) = 0..(n - 1)

(* u_flat = spsolve(A, b): the vectors it can return *)
SolveOutcomes(A, b) ==
    IF b = Zeros(Len(b)) /\ NonSingular(A, Len(b)) THEN {Zeros(Len(b))}
    ELSE {[k \in 1..Len(b) |-> k], [k \in 1..Len(b) |-> 2]}

(* a fill that writes every node of the grid *)
FilledEverywhere(u, u_flat, nx, ny) ==
    [j \in 1..ny |-> [i \in 1..nx |-> u_flat[((j * nx + i) % Len(u_flat)) + 1]]]

(* for j in range(1, ny - 1): for i in range(1, nx - 1):                    *)
(*     u[j, i] = u_flat[k_idx(i, j)]                                        *)
Filled(u, u_flat, nx, ny) ==
    [j \in 1..ny |-> [i \in 1..nx |->
        IF i - 1 \in 1..(nx - 2) /\ j - 1 \in 1..(ny - 2)
        THEN u_flat[k_idx(i - 1, j - 1, nx) + 1] ELSE u[j][i]]]

(* PDESolution(grid=(x, y), u=u, success=True, message=..., n_eval=0) *)
PDESolution(u, message) == [u |-> u, success |-> TRUE, message |-> message]

NoField == [u |-> <<>>, success |-> FALSE, message |-> ""]

(* raise SolverFailedError(text) *)
PdeRaise(exc, text) == pde' = [pde EXCEPT !.pc = "done", !.out = exc, !.text = text]

(* solve_pde_2d up to the assembly loops *)
PdeStart ==
    /\ pde.pc = "start"
    /\ LET hx == Spacing(pde.x_min, pde.x_max, pde.nx)
           hy == Spacing(pde.y_min, pde.y_max, pde.ny) IN
       IF TooSmall(pde.nx, pde.ny)
       THEN PdeRaise("SolverFailedError", <<"Grid must have at least 3 points per dimension">>)
       ELSE IF (pde.nx - 2) * (pde.ny - 2) <= 0
       THEN pde' = [pde EXCEPT !.pc = "done", !.out = "PDESolution",
                               !.u = InitialField(pde.bc, pde.nx, pde.ny),
                               !.result = PDESolution(InitialField(pde.bc, pde.nx, pde.ny),
                                                      "No interior points")]
       ELSE IF hx = 0 \/ hy = 0
       THEN PdeRaise("ZeroDivisionError", <<"float division by zero">>)
       ELSE pde' = [pde EXCEPT !.pc = "assemble", !.hx = hx, !.hy = hy,
                               !.u = InitialField(pde.bc, pde.nx, pde.ny),
                               !.b = Zeros((pde.nx - 2) * (pde.ny - 2))]
    /\ UNCHANGED <<eqVars, valVars, plVars, ode, dif, reg, git>>

(* residual_func(x[i], y[j], 0.0, 0.0, 0.0, 0.0, 0.0, 0.0, **params) *)
SourceArgs(x, y) == <<x, y, 0, 0, 0, 0, 0, 0>>

(* the rest of the pass of node (i, j) once the source, called on a, gave r *)
PdeAssembled(i, j, a, r) ==
    IF r.raised # "none"
    THEN pde' = [pde EXCEPT !.pc = "done", !.out = "SolverFailedError",
                            !.text = <<"Residual evaluation failed: ", ExcText(r.raised)>>,
                            !.evals = Append(@, [i |-> i, j |-> j, args |-> a, raised |-> r.raised,
                                                 value |-> 0])]
    ELSE pde' = [pde EXCEPT !.k = @ + 1,
                            !.A = @ \o NodeTriplets(i, j, pde.nx, pde.ny, pde.hx, pde.hy),
                            !.b[pde.k + 1] = NodeBoundary(pde.u, i, j, pde.nx, pde.ny, pde.hx, pde.hy)
                                             + pde.hx * pde.hx * pde.hy * pde.hy * r.res[1],
                            !.evals = Append(@, [i |-> i, j |-> j, args |-> a, raised |-> "none",
                                                 value |-> r.res[1]])]

(* one pass of the assembly loops: the row of node (i, j) and its b[k] *)
PdeAssemble ==
    /\ pde.pc = "assemble"
    /\ pde.k < (pde.nx - 2) * (pde.ny - 2)
    /\ PdeAssembled(NodeOf(pde.k, pde.nx).i, NodeOf(pde.k, pde.nx).j,
                    SourceArgs(pde.x_min + NodeOf(pde.k, pde.nx).i * pde.hx,
                               pde.y_min + NodeOf(pde.k, pde.nx).j * pde.hy),
                    rhs_func(pde.source, Namespace(NoParams), <<"x", "y">>,
                             SourceArgs(pde.x_min + NodeOf(pde.k, pde.nx).i * pde.hx,
                                        pde.y_min + NodeOf(pde.k, pde.nx).j * pde.hy)))
    /\ UNCHANGED <<eqVars, valVars, plVars, ode, dif, reg, git>>

(* A = coo_matrix(...).tocsr(); u_flat = spsolve(A, b), which may raise *)
PdeSolve ==
    /\ pde.pc = "assemble"
    /\ pde.k = (pde.nx - 2) * (pde.ny - 2)
    /\ \/ pde' = [pde EXCEPT !.pc = "done", !.solves = @ + 1, !.solveExc = "RuntimeError",
                             !.out = "SolverFailedError",
                             !.text = <<"Linear solver failed: ", "Factor is exactly singular">>]
       \/ \E v \in SolveOutcomes(pde.A, pde.b) :
             pde' = [pde EXCEPT !.pc = "fill", !.solves = @ + 1, !.u_flat = v]
    /\ UNCHANGED <<eqVars, valVars, plVars, ode, dif, reg, git>>

(* the interior is filled and the PDESolution returned *)
PdeFill ==
    /\ pde.pc = "fill"
    /\ pde' = [pde EXCEPT !.pc = "done", !.out = "PDESolution",
                          !.u = Filled(pde.u, pde.u_flat, pde.nx, pde.ny),
                          !.writes = [k \in 1..((pde.nx - 2) * (pde.ny - 2)) |->
                                         NodeOf(k - 1, pde.nx)],
                          !.result = PDESolution(Filled(pde.u, pde.u_flat, pde.nx, pde.ny), "OK")]
    /\ UNCHANGED <<eqVars, valVars, plVars, ode, dif, reg, git>>

(* a call of solve_pde_2d about to start *)
PdeRequest(source, x_min, x_max, y_min, y_max, nx, ny, bc) ==
    [pc |-> "start", source |-> source, x_min |-> x_min, x_max |-> x_max,
     y_min |-> y_min, y_max |-> y_max, nx |-> nx, ny |-> ny, bc |-> bc,
     hx |-> 0, hy |-> 0, u |-> <<>>, k |-> 0, A |-> <<>>, b |-> <<>>, evals |-> <<>>,
     solves |-> 0, solveExc |-> "none", u_flat |-> <<>>, writes |-> <<>>,
     out |-> "none", text |-> <<>>, result |-> NoField]

(* sources: 0, 1, x + y, sin, x or sin *)
Sources == {<<"0">>, <<"1">>, <<"x", "+", "y">>, <<"sin">>, <<"x", "or", "sin">>}
Boundaries == {"None", "ones", "ramp"}

InitPde ==
    /\ \E s \in Sources, bc \in Boundaries, nx \in 2..MaxGrid, ny \in 2..MaxGrid,
          lo \in {-2, 0}, hx \in 0..2, hy \in 1..2 :
          pde = PdeRequest(s, lo, lo + hx * (nx - 1), 0, hy * (ny - 1), nx, ny, bc)
    /\ ode = [pc |-> "idle"]
    /\ dif = [pc |-> "idle"]
    /\ reg = [pc |-> "idle"]
    /\ git = [pc |-> "idle"]
    /\ args = NoCall
    /\ EqStart("idle")
    /\ ValIdle
    /\ PlIdle

NextPde == PdeStart \/ PdeAssemble \/ PdeSolve \/ PdeFill

SpecPde == InitPde /\ [][NextPde]_vars

-----------------------------------------------------------------------------
(* Properties of solve_pde_2d *)

(* the nodes of the boundary and of the interior, as (i, j) from 0 *)
Interior(nx, ny) == {n \in [i : 0..(nx - 1), j : 0..(ny - 1)] :
                        n.i \in 1..(nx - 2) /\ n.j \in 1..(ny - 2)}
Boundary(nx, ny) == [i : 0..(nx - 1), j : 0..(ny - 1)] \ Interior(nx, ny)

PdeReturned == pde.pc = "done" /\ pde.out = "PDESolution"

(* C17: for nx, ny >= 3 every boundary node of the returned field holds the *)
(* supplied boundary value, or 0 when none was supplied; only the           *)
(* (nx-2)*(ny-2) interior entries are written from the linear solve, each   *)
(* once; and u has shape (ny, nx)                                           *)
C17_BoundaryKept ==
    (PdeReturned /\ pde.nx >= 3 /\ pde.ny >= 3) =>
        /\ Len(pde.result.u) = pde.ny
        /\ \A j \in 1..pde.ny : Len(pde.result.u[j]) = pde.nx
        /\ \A n \in Boundary(pde.nx, pde.ny) :
              pde.result.u[n.j + 1][n.i + 1] =
                 IF pde.bc = "None" THEN 0 ELSE BcValue(pde.bc, n.i, n.j)
        /\ \A n \in Interior(pde.nx, pde.ny) :
              pde.result.u[n.j + 1][n.i + 1] = pde.u_flat[k_idx(n.i, n.j, pde.nx) + 1]
        /\ Len(pde.writes) = (pde.nx - 2) * (pde.ny - 2)
        /\ Range(pde.writes) = Interior(pde.nx, pde.ny)

C17_Witness ==
    /\ PdeReturned
    /\ pde.nx > pde.ny
    /\ pde.bc = "ramp"
    /\ pde.u_flat[1] # pde.u_flat[2]

(* the source was zero at every interior node and no boundary was supplied *)
ZeroProblem ==
    /\ pde.pc = "done"
    /\ pde.bc = "None"
    /\ pde.k = (pde.nx - 2) * (pde.ny - 2)
    /\ pde.k > 0
    /\ \A e \in DOMAIN pde.evals : pde.evals[e].value = 0

(* C18: for every nx, ny >= 3, a source that is zero at every interior node *)
(* with the default zero boundary gives a field that is zero at every node: *)
(* the assembled right-hand side is zero and the matrix is non-singular     *)
C18_ZeroSourceZeroField ==
    ZeroProblem =>
        /\ pde.b = Zeros(pde.k)
        /\ NonSingular(pde.A, pde.k)
        /\ pde.solveExc = "none" =>
              /\ pde.out = "PDESolution"
              /\ \A j \in 1..pde.ny : \A i \in 1..pde.nx : pde.result.u[j][i] = 0

C18_Witness ==
    /\ ZeroProblem
    /\ pde.out = "PDESolution"
    /\ pde.nx = MaxGrid /\ pde.ny = MaxGrid
    /\ pde.hx # pde.hy

(* C19: solve_pde_2d raises SolverFailedError and returns no PDESolution    *)
(* when nx < 3 or ny < 3, before the source is evaluated; when the source   *)
(* raises at an interior node, the linear solve never being attempted; and  *)
(* when the sparse solve raises.  Every PDESolution returned has success.   *)
C19_FailuresRaise ==
    pde.pc = "done" =>
        /\ (pde.nx < 3 \/ pde.ny < 3) =>
              pde.out = "SolverFailedError" /\ pde.evals = <<>> /\ pde.result = NoField
        /\ (pde.evals # <<>> /\ pde.evals[Len(pde.evals)].raised # "none") =>
              pde.out = "SolverFailedError" /\ pde.solves = 0 /\ pde.result = NoField
        /\ pde.solveExc # "none" =>
              pde.out = "SolverFailedError" /\ pde.result = NoField
        /\ pde.out = "PDESolution" => pde.result.success

C19_Witness ==
    /\ pde.pc = "done"
    /\ Len(pde.evals) = 2
    /\ pde.evals[2].raised # "none"
    /\ pde.out = "SolverFailedError"

-----------------------------------------------------------------------------
(* solver/predefined.py: load_predefined_equations and the module variable  *)
(* _cache.  Objects live in a heap: _cache is 0 (None) or the position in   *)
(* the heap of the dict it refers to, and a dict is the sequence of its     *)
(* items [key, value] in insertion order.  The equations file is outside the           *)
(* repository: its content is one of a few documents, and it can be         *)
(* replaced or removed at any time.                                         *)

MaxLoads == 3      \* most calls of load_predefined_equations

(* the documents the equations file can hold, each a mapping in file order  *)
Document(f) ==
    IF f = "v1"
    THEN <<[key |-> "poisson",
            data |-> [formula |-> "-u_xx - u_yy = k", expression |-> <<"k">>,
                      equation_type |-> "pde", variables |-> <<"x", "y">>]],
           [key |-> "harmonic_oscillator",
            data |-> [formula |-> "y'' + w^2 y = 0", function_name |-> "harmonic_oscillator",
                      order |-> 2]],
           [key |-> "profile",
            data |-> [formula |-> "f'' = -f", function_name |-> "harmonic_oscillator",
                      order |-> 2, equation_type |-> "pde"]],
           [key |-> "untitled", data |-> [expression |-> <<"y0">>]],
           [key |-> "empty", data |-> [formula |-> "y' = ?"]]>>
    ELSE <<[key |-> "harmonic_oscillator",
            data |-> [formula |-> "y' = y", expression |-> <<"y0">>]],
           [key |-> "poisson",
            data |-> [formula |-> "-u_xx - u_yy = sin", expression |-> <<"sin">>,
                      equation_type |-> "pde", variables |-> <<"x", "y">>]],
           [key |-> "coupled",
            data |-> [formula |-> "f' = g, g' = -f",
                      vector_expressions |-> <<<<"y1">>, <<"y0">>>>,
                      vector_components |-> 2, equation_type |-> "vector_ode"]],
           [key |-> "draft", data |-> [formula |-> "", function_name |-> "geometric_growth"]]>>

FileStates == {"missing", "blank", "v1", "v2"}

(* data.get(field, default) *)
Get(data, field, default) == IF field \in DOMAIN data THEN data[field] ELSE default

(* a test that finds something to run in every entry *)
AlwaysToRun(data) == FALSE

(* not expression and not function_name and not has_vector *)
NothingToRun(data) ==
    /\ Get(data, "expression", <<>>) = <<>>
    /\ Get(data, "function_name", "") = ""
    /\ Get(data, "vector_expressions", <<>>) = <<>>

(* PredefinedEquation(key=key, name=data.get("name", key), ...) *)
PredefinedEquation(key, data) ==
    [key |-> key,
     name |-> Get(data, "name", key),
     formula |-> data.formula,
     order |-> Get(data, "order", 1),
     expression |-> IF "expression" \in DOMAIN data
                    THEN [given |-> TRUE, text |-> data.expression]
                    ELSE [given |-> FALSE, text |-> <<>>],
     function_name |-> Get(data, "function_name", NoneName),
     vector_expressions |-> IF "vector_expressions" \in DOMAIN data
                            THEN [given |-> TRUE, texts |-> data.vector_expressions]
                            ELSE [given |-> FALSE, texts |-> <<>>],
     vector_components |-> IF Get(data, "vector_expressions", <<>>) # <<>>
                           THEN Get(data, "vector_components", 1) ELSE 1,
     equation_type |-> Get(data, "equation_type", "ode"),
     variables |-> Get(data, "variables", <<"x">>)]

(* for key, data in raw.items(): the entries without a formula or without   *)
(* anything to run are skipped                                              *)
RECURSIVE Equations(_)
Equations(raw) ==
    IF raw = <<>> THEN <<>>
    ELSE IF Get(Head(raw).data, "formula", "") = "" \/ NothingToRun(Head(raw).data)
    THEN Equations(Tail(raw))
    ELSE <<[key |-> Head(raw).key, value |-> PredefinedEquation(Head(raw).key, Head(raw).data)]>>
         \o Equations(Tail(raw))

(* a test of the cache that never finds it filled *)
CachedNever(cache) == FALSE

(* if _cache is not None *)
Cached(cache) == cache # 0

(* a loader that caches an empty registry when the file is missing *)
LoadOrCacheEmpty(cache, file, heap) ==
    IF Cached(cache)
    THEN [cache |-> cache, heap |-> heap, read |-> 0, ret |-> cache, exc |-> "none"]
    ELSE IF file = "missing"
    THEN [cache |-> Len(heap) + 1, heap |-> Append(heap, <<>>), read |-> 0, ret |-> 0,
          exc |-> "FileNotFoundError"]
    ELSE IF file = "blank"
    THEN [cache |-> cache, heap |-> heap, read |-> 1, ret |-> 0, exc |-> "AttributeError"]
    ELSE [cache |-> Len(heap) + 1, heap |-> Append(heap, Equations(Document(file))),
          read |-> 1, ret |-> Len(heap) + 1, exc |-> "none"]

(* load_predefined_equations(): the new _cache and heap, whether the file   *)
(* was opened, and what the call returned or raised                         *)
load_predefined_equations(cache, file, heap) ==
    IF Cached(cache)
    THEN [cache |-> cache, heap |-> heap, read |-> 0, ret |-> cache, exc |-> "none"]
    ELSE IF file = "missing"
    THEN [cache |-> cache, heap |-> heap, read |-> 0, ret |-> 0, exc |-> "FileNotFoundError"]
    ELSE IF file = "blank"
    THEN [cache |-> cache, heap |-> heap, read |-> 1, ret |-> 0, exc |-> "AttributeError"]
    ELSE [cache |-> Len(heap) + 1, heap |-> Append(heap, Equations(Document(file))),
          read |-> 1, ret |-> Len(heap) + 1, exc |-> "none"]

(* the call ends with outcome r *)
Loaded(r) ==
    reg' = [reg EXCEPT !.cache = r.cache, !.heap = r.heap, !.reads = @ + r.read,
                       !.docs = IF Len(r.heap) > Len(reg.heap)
                                THEN Append(@, Document(reg.file)) ELSE @,
                       !.loads = Append(@, [ret |-> r.ret, exc |-> r.exc])]

(* one call of load_predefined_equations *)
LoadPredefinedEquations ==
    /\ reg.pc = "ready"
    /\ Len(reg.loads) < MaxLoads
    /\ Loaded(load_predefined_equations(reg.cache, reg.file, reg.heap))
    /\ UNCHANGED <<eqVars, valVars, plVars, ode, dif, pde, git>>

(* the equations file is replaced or removed *)
WriteFile ==
    /\ reg.pc = "ready"
    /\ \E f \in FileStates \ {reg.file} : reg' = [reg EXCEPT !.file = f]
    /\ UNCHANGED <<eqVars, valVars, plVars, ode, dif, pde, git>>

(* the request the dialogs build from a record of the registry *)
RequestOf(eq) ==
    [expression |-> eq.expression, function_name |-> eq.function_name, order |-> eq.order,
     parameters |-> "k" :> Num(2), x_min |-> 0, x_max |-> MaxVal,
     y0 |-> [i \in 1..eq.order |-> 1], n_points |-> 3, method |-> "RK45",
     x0_list |-> <<>>, equation_type |-> eq.equation_type, variables |-> eq.variables,
     y_bounds |-> TRUE, n_points_y |-> 0,
     vector_expressions |-> [given |-> FALSE, texts |-> <<>>], vector_components |-> 1]

(* a record of the loaded registry is selected and run_solver_pipeline is   *)
(* called with its expression, function name, order, type and variables     *)
RunSelected ==
    /\ reg.pc = "ready"
    /\ reg.cache # 0
    /\ ppc = "idle"
    /\ \E k \in DOMAIN reg.heap[reg.cache] :
          /\ req' = RequestOf(reg.heap[reg.cache][k].value)
          /\ reg' = [reg EXCEPT !.selected = reg.heap[reg.cache][k].key]
    /\ ppc' = "start"
    /\ UNCHANGED <<plog, sol, pout, eqVars, valVars, ode, dif, pde, git>>

InitRegistry ==
    /\ \E f \in FileStates :
          reg = [pc |-> "ready", cache |-> 0, heap |-> <<>>, docs |-> <<>>, file |-> f,
                 reads |-> 0,
                 loads |-> <<>>, selected |-> NoneName]
    /\ ode = [pc |-> "idle"]
    /\ dif = [pc |-> "idle"]
    /\ pde = [pc |-> "idle"]
    /\ git = [pc |-> "idle"]
    /\ args = NoCall
    /\ EqStart("idle")
    /\ ValIdle
    /\ PlIdle

NextRegistry ==
    \/ LoadPredefinedEquations \/ WriteFile \/ RunSelected
    \/ PValidate \/ PResolve
    \/ CheckArgs \/ ImportFunction \/ Begin \/ Normalize \/ ValidateAst \/ Compile \/ TestEval
    \/ PSolve \/ PStatistics \/ PPlot \/ PExport \/ PReturn

SpecRegistry == InitRegistry /\ [][NextRegistry]_vars

-----------------------------------------------------------------------------
(* Properties of the registry of predefined equations *)

(* C20: after the first successful load_predefined_equations call every     *)
(* later call returns the identical registry object without reading the     *)
(* file again, and across any sequence of solver and pipeline operations    *)
(* the keys and the records of the registry never change                    *)
C20_LoadedOnce ==
    [][reg.cache # 0 =>
          /\ reg'.cache = reg.cache
          /\ reg'.heap = reg.heap
          /\ reg'.reads = reg.reads
          /\ Len(reg'.loads) > Len(reg.loads) =>
                reg'.loads[Len(reg'.loads)] = [ret |-> reg.cache, exc |-> "none"]]_vars

C20_Witness ==
    /\ reg.cache # 0
    /\ Len(reg.loads) = MaxLoads
    /\ reg.loads[MaxLoads].ret = reg.cache
    /\ reg.reads = 1
    /\ reg.file = "missing"
    /\ pout = "SolverResult"

-----------------------------------------------------------------------------
(* Properties of run_solver_pipeline: the order of its stages *)

(* the request breaks one of the rules on the domain, the initial           *)
(* conditions, the sample count, the method or the parameters               *)
RuleBroken(r) == \E c \in 2..6 : Violated(c, ValidationCall(r))

(* stage a was entered, and before stage b if b was entered at all *)
Before(a, b) ==
    \A j \in DOMAIN plog : plog[j] = b => \E i \in 1..(j - 1) : plog[i] = a

(* C21: for every equation kind, a request that breaks a validation rule or *)
(* whose expression cannot be parsed ends in ValidationError or             *)
(* EquationParseError before any solver is called and before any plot or    *)
(* export file is written; validation runs before resolution, and           *)
(* resolution before solving                                                *)
C21_FailFast ==
    /\ (RuleBroken(req) \/ outcome = "EquationParseError") =>
          /\ Range(plog) \cap {"solve", "plot", "export", "save_plot"} = {}
          /\ ppc = "done" => pout \in {"ValidationError", "EquationParseError"}
    /\ Before("validate", "resolve")
    /\ Before("resolve", "solve")

(* a result came back from the ODE or the vector branch *)
OdeResult == pout = "SolverResult" /\ Path(req) \in {"ode", "vector"}

(* C22: the residual diagnostic gates nothing and retries nothing: the       *)
(* solution that is returned is the array the solver produced, with the     *)
(* solver's own success flag, whatever the residuals are; they only fill    *)
(* the residual entries of the metadata, the solver ran once, and a         *)
(* solution whose residuals were computed always goes on to the statistics  *)
C22_ResidualOnlyReported ==
    /\ OdeResult =>
          /\ sol.y = Trajectory(req.y0, req.n_points)
          /\ sol.success
          /\ sol.error_metrics =
                compute_ode_residual_error(Samples(req), Trajectory(req.y0, req.n_points)).metrics
          /\ Cardinality({i \in DOMAIN plog : plog[i] = "solve"}) = 1
    /\ (sol.error_metrics.given /\ ppc = "done") => pout = "SolverResult"

(* a result whose right-hand side sorts its argument in place, on a         *)
(* solution whose columns are not sorted, with residuals that are not zero  *)
C22_Witness ==
    /\ OdeResult
    /\ req.expression.text = <<"ysort", "or", "y0">>
    /\ req.order = 2
    /\ sol.y[2] # Sorted(sol.y[2])
    /\ sol.error_metrics.residual_max.k = "fin"
    /\ sol.error_metrics.residual_max.v > 0

-----------------------------------------------------------------------------
(* Properties of the test evaluation *)

(* the test evaluation of the call in progress, as _test_eval runs it *)
TestOutcome == TestEvals(compiled, 1, TestNs, TestState, [n |-> 0, fx |-> {}, err |-> "none"])

(* the parser got as far as its test evaluation *)
TestRan == pc = "done" /\ compiled # <<>> /\ Len(compiled) = Len(args.expression.texts)

(* a callable is handed out only after a test evaluation that did not       *)
(* raise, and a test evaluation that raises ends in EquationParseError,     *)
(* with no callable to call                                                 *)
TestGuardsCallable ==
    /\ (outcome = "callable" /\ compiled # <<>>) =>
          /\ TestRan
          /\ TestOutcome.err = "none"
          /\ nEval >= Len(compiled)
    /\ (TestRan /\ TestOutcome.err # "none") =>
          /\ outcome = "EquationParseError"
          /\ call.n = 0

(* C23, as stated: a callable is handed out only after one test evaluation  *)
(* at the zero point that did not raise, a test evaluation that raises ends *)
(* in EquationParseError, and so an undefined name or a state index beyond  *)
(* the declared order never shows first in a call made by a solver.         *)
C23_NeverInLoop ==
    /\ TestGuardsCallable
    /\ call.n > 0 => call.raised \notin {"NameError", "IndexError"}

(* C23, amended: a callable is handed out only after one test evaluation at *)
(* the zero point that did not raise, and a test evaluation that raises     *)
(* ends in EquationParseError; what this rules out is an undefined name or  *)
(* an index beyond the declared order in a call at the zero point itself.   *)
C23_TestedAtZero ==
    /\ TestGuardsCallable
    /\ (call.n > 0 /\ call.x = 0 /\ call.yIn = Zeros(Len(call.yIn))) =>
          call.raised \notin {"NameError", "IndexError"}

(* a callable that passed its test evaluation raises IndexError on a state  *)
(* of the declared length, away from the zero point                         *)
C23_Witness ==
    /\ TestRan
    /\ outcome = "callable"
    /\ call.n > 0
    /\ call.raised = "IndexError"
    /\ Len(call.yIn) = StateSize
    /\ call.x # 0

-----------------------------------------------------------------------------
(* Properties of the records of the registry *)

(* the items of every registry that was loaded *)
Admitted == UNION {Range(reg.heap[h]) : h \in DOMAIN reg.heap}

(* the keys of registry h *)
Keys(h) == {reg.heap[h][k].key : k \in DOMAIN reg.heap[h]}

NoFormula(data) == Get(data, "formula", "") = ""

NoExpressionNoName(data) ==
    Get(data, "expression", <<>>) = <<>> /\ Get(data, "function_name", "") = ""

-----------------------------------------------------------------------------
(* Properties of run_solver_pipeline: what reaches a solver *)

(* C25: whenever a solver is called, whatever the kind of equation,         *)
(* validate_all_inputs has returned before, without an error, on a call     *)
(* that carries the request's sample count, so the count is within the      *)
(* validator's bounds                                                       *)
C25_CountChecked ==
    "solve" \in Range(plog) =>
        /\ Before("validate", "solve")
        /\ vret.state = "done" /\ vret.exc = "none" /\ vret.errors = <<>>
        /\ vargs.num_points = req.n_points
        /\ req.n_points \in MinPoints..MaxPoints

-----------------------------------------------------------------------------
(* Properties of the assembly of solve_pde_2d *)

(* the loops of the assembly were entered *)
Assembling == pde.pc \in {"assemble", "solve", "fill", "done"} /\ pde.hx # 0 /\ pde.hy # 0

InteriorNodes == (1..(pde.nx - 2)) \X (1..(pde.ny - 2))

(* the four neighbours of node p, each with the weight of its axis *)
NeighboursOf(p) ==
    {[i |-> p[1] - 1, j |-> p[2], w |-> cx(pde.hx, pde.hy)],
     [i |-> p[1] + 1, j |-> p[2], w |-> cx(pde.hx, pde.hy)],
     [i |-> p[1], j |-> p[2] - 1, w |-> cy(pde.hx, pde.hy)],
     [i |-> p[1], j |-> p[2] + 1, w |-> cy(pde.hx, pde.hy)]}

(* the entries of A in row r and column c *)
TripletsAt(r, c) == {t \in DOMAIN pde.A : pde.A[t].r = r /\ pde.A[t].c = c}

RECURSIVE SumOver(_)
SumOver(S) ==
    IF S = {} THEN 0
    ELSE LET m == CHOOSE m \in S : TRUE IN m.w * pde.u[m.j + 1][m.i + 1] + SumOver(S \ {m})

(* the row of node p is in A and b *)
RowBuilt(p) == k_idx(p[1], p[2], pde.nx) < pde.k

(* C26: while solve_pde_2d assembles a grid with nx, ny >= 3, k_idx maps    *)
(* the interior nodes one to one onto 0 .. (nx-2)*(ny-2) - 1; every         *)
(* interior node has one row, with the diagonal 2/hx^2 + 2/hy^2; each of    *)
(* its four neighbours gives exactly one term: the coefficient -1/hx^2 or   *)
(* -1/hy^2 in the neighbour's column when the neighbour is interior, and    *)
(* else its boundary value times that weight in b, never both and never     *)
(* neither; the source is evaluated once for each node, with the six        *)
(* solution and derivative arguments at 0                                   *)
C26_FivePointRows ==
    Assembling =>
        /\ \A k \in 0..((pde.nx - 2) * (pde.ny - 2) - 1) :
              Cardinality({p \in InteriorNodes : k_idx(p[1], p[2], pde.nx) = k}) = 1
        /\ \A p \in InteriorNodes : k_idx(p[1], p[2], pde.nx) \in 0..((pde.nx - 2) * (pde.ny - 2) - 1)
        /\ \A p \in InteriorNodes : RowBuilt(p) =>
              LET k == k_idx(p[1], p[2], pde.nx)
                  inside == {m \in NeighboursOf(p) : <<m.i, m.j>> \in InteriorNodes}
              IN  /\ Cardinality(TripletsAt(k, k)) = 1
                  /\ \A t \in TripletsAt(k, k) :
                        pde.A[t].v = 2 * cx(pde.hx, pde.hy) + 2 * cy(pde.hx, pde.hy)
                  /\ \A m \in inside :
                        /\ Cardinality(TripletsAt(k, k_idx(m.i, m.j, pde.nx))) = 1
                        /\ \A t \in TripletsAt(k, k_idx(m.i, m.j, pde.nx)) : pde.A[t].v = -m.w
                  /\ Cardinality({t \in DOMAIN pde.A : pde.A[t].r = k}) = 1 + Cardinality(inside)
                  /\ pde.b[k + 1] = SumOver(NeighboursOf(p) \ inside)
                                    + pde.hx * pde.hx * pde.hy * pde.hy * pde.evals[k + 1].value
                  /\ <<pde.evals[k + 1].i, pde.evals[k + 1].j>> = p
                  /\ SubSeq(pde.evals[k + 1].args, 3, 8) = Zeros(6)
        /\ Len(pde.evals) \in {pde.k, pde.k + 1}
        /\ Len(pde.evals) = pde.k + 1 => pde.evals[pde.k + 1].raised # "none"

(* a grid whose rows are all built, with a node that has interior and       *)
(* boundary neighbours on both axes and boundary values that are not zero   *)
C26_Witness ==
    /\ Assembling
    /\ pde.nx = MaxGrid /\ pde.ny = MaxGrid
    /\ pde.k = (pde.nx - 2) * (pde.ny - 2)
    /\ pde.bc = "ramp"
    /\ pde.hx # pde.hy
    /\ \E k \in DOMAIN pde.b : pde.b[k] # 0

-----------------------------------------------------------------------------
(* Properties of the namespace of an evaluation *)

(* the names a parser binds itself: the independent variable and the state *)
ReservedOf(parser) == IF parser = "parse_difference_expression" THEN {"n", "y"} ELSE {"x", "y"}

(* the parameter map without its entries under the names of S *)
Without(params, S) == [name \in DOMAIN params \ S |-> params[name]]

(* the call under way is one of parse_expression, parse_vector_expression   *)
(* and parse_difference_expression                                          *)
BindsState == args.entry \in Parsers \ {"parse_pde_rhs_expression"}

(* C27: a parameter map cannot change what x (or n) and y denote: the test  *)
(* evaluation and every call of a callable of parse_expression,             *)
(* parse_vector_expression or parse_difference_expression give what they    *)
(* give without the entries of the map named x (or n) and y, that is, with  *)
(* the variable and the state the caller handed over                        *)
C27_ReservedNamesBound ==
    BindsState =>
        LET plain == Without(args.params, ReservedOf(ParserOf(args.entry))) IN
        /\ TestRan =>
              TestOutcome = TestEvals(compiled, 1, TestNsWith(plain), TestState,
                                      [n |-> 0, fx |-> {}, err |-> "none"])
        /\ call.n > 0 =>
              /\ call.res = InvokeWith(plain, call.x, call.yIn).res
              /\ call.raised = InvokeWith(plain, call.x, call.yIn).raised
              /\ call.yOut = InvokeWith(plain, call.x, call.yIn).yOut

(* a callable of parse_expression for x + y[0], built with a parameter map  *)
(* that has entries named x and y, gave the sum of the x and the y[0] it    *)
(* was called with                                                          *)
C27_Witness ==
    /\ args.entry = "parse_expression"
    /\ args.expression.texts = <<<<"x", "+", "y0">>>>
    /\ {"x", "y"} \subseteq DOMAIN args.params
    /\ call.n > 0
    /\ call.raised = "none"
    /\ call.x # args.params["x"].n
    /\ call.res[Len(call.res)] = call.x + call.yIn[1]

-----------------------------------------------------------------------------
(* Properties of a load that fails *)

(* some call of load_predefined_equations ended in FileNotFoundError *)
FailedBefore == \E i \in DOMAIN reg.loads : reg.loads[i].exc = "FileNotFoundError"

(* no call of load_predefined_equations has returned a registry *)
NoneLoaded == \A i \in DOMAIN reg.loads : reg.loads[i].exc # "none"

(* C28: a call of load_predefined_equations that finds the file missing     *)
(* raises FileNotFoundError and leaves the cache unset, with no registry    *)
(* created; so a call made after it, once the file is there, reads the      *)
(* file, and returns and caches the registry of all its records (unless a  *)
(* call in between has loaded it already)                                   *)
C28_FailureNotCached ==
    [][Len(reg'.loads) > Len(reg.loads) =>
          /\ (reg.cache = 0 /\ reg.file = "missing") =>
                /\ reg'.loads[Len(reg'.loads)] = [ret |-> 0, exc |-> "FileNotFoundError"]
                /\ reg'.cache = 0
                /\ reg'.heap = reg.heap
                /\ reg'.reads = reg.reads
          /\ reg'.loads[Len(reg'.loads)].exc = "FileNotFoundError" =>
                reg.file = "missing" /\ reg'.cache = 0
          /\ (FailedBefore /\ NoneLoaded /\ reg.file \in {"v1", "v2"}) =>
                /\ reg.cache = 0
                /\ reg'.reads = reg.reads + 1
                /\ reg'.cache # 0
                /\ reg'.loads[Len(reg'.loads)] = [ret |-> reg'.cache, exc |-> "none"]
                /\ reg'.heap[reg'.cache] = Equations(Document(reg.file))]_vars

(* a load that failed on a missing file, and a later one that returned the  *)
(* registry of the file written in between                                  *)
C28_Witness ==
    /\ reg.pc = "ready"
    /\ \E i \in DOMAIN reg.loads : \E j \in DOMAIN reg.loads :
          /\ i < j
          /\ reg.loads[i].exc = "FileNotFoundError"
          /\ reg.loads[j] = [ret |-> reg.cache, exc |-> "none"]
    /\ reg.cache # 0
    /\ reg.heap[reg.cache] # <<>>
    /\ reg.reads = 1

-----------------------------------------------------------------------------
(* Properties of run_solver_pipeline: what is returned *)

-----------------------------------------------------------------------------
(* utils/update_checker.py: perform_git_pull.  The working copy has or has  *)
(* not local changes under input/ and output/, and a stack of stash         *)
(* entries; git answers in the language of the user's locale.  log is the   *)
(* sequence of git commands that were run.                                  *)

MaxStash == 1      \* stash entries that are there before the call

(* what git stash push prints when there is nothing to save *)
NothingToSave(locale) ==
    IF locale = "en" THEN "No local changes to save" ELSE "Keine lokalen Aenderungen zum Speichern"

(* "No local changes" in (stash_result.stdout or "") *)
SaysNoLocalChanges(stdout) == stdout = "No local changes to save"

(* return False, message / return True, message *)
GitReturns(g, success, message) ==
    [g EXCEPT !.pc = "done", !.out = [success |-> success, message |-> message]]

(* the except clauses of perform_git_pull *)
GitExcept(g, exc) ==
    CASE exc = "TimeoutExpired"    -> GitReturns(g, FALSE, "Update timed out. Try again later.")
      [] exc = "FileNotFoundError" ->
             GitReturns(g, FALSE, "Git not found. Install Git to enable automatic updates.")
      [] OTHER                     -> GitReturns(g, FALSE, "str(e)")

(* if not git_dir.exists() or not git_dir.is_dir() *)
GitStart ==
    /\ git.pc = "start"
    /\ git' = IF ~git.is_repo
              THEN GitReturns(git, FALSE, "This directory is not a git repository. Update manually.")
              ELSE [git EXCEPT !.pc = "stash"]
    /\ UNCHANGED <<eqVars, valVars, plVars, ode, dif, pde, reg>>

(* git stash push -u -- input/ output/ *)
GitStash ==
    /\ git.pc = "stash"
    /\ \/ /\ git.changes
          /\ git' = [git EXCEPT !.pc = "pull", !.log = Append(@, "stash"), !.stash_rc = 0,
                                !.stash_out = "Saved working directory and index state",
                                !.changes = FALSE, !.stack = @ + 1, !.pushed = TRUE]
       \/ /\ ~git.changes
          /\ git' = [git EXCEPT !.pc = "pull", !.log = Append(@, "stash"), !.stash_rc = 0,
                                !.stash_out = NothingToSave(git.locale)]
       \/ git' = [git EXCEPT !.pc = "pull", !.log = Append(@, "stash"), !.stash_rc = 1,
                             !.stash_out = ""]
       \/ \E exc \in {"TimeoutExpired", "FileNotFoundError", "OSError"} :
             git' = GitExcept([git EXCEPT !.log = Append(@, "stash")], exc)
    /\ UNCHANGED <<eqVars, valVars, plVars, ode, dif, pde, reg>>

(* git pull --no-edit *)
GitPull ==
    /\ git.pc = "pull"
    /\ \/ \E rc \in {0, 1} :
             git' = [git EXCEPT !.pc = "pop", !.log = Append(@, "pull"), !.pull_rc = rc]
       \/ \E exc \in {"TimeoutExpired", "OSError"} :
             git' = GitExcept([git EXCEPT !.log = Append(@, "pull")], exc)
    /\ UNCHANGED <<eqVars, valVars, plVars, ode, dif, pde, reg>>

(* if stash_result.returncode == 0 and "No local changes" not in stdout:    *)
(*     git stash pop, whose result is not looked at                         *)
GitPop ==
    /\ git.pc = "pop"
    /\ IF git.stash_rc = 0 /\ ~SaysNoLocalChanges(git.stash_out)
       THEN \/ /\ git.stack > 0
               /\ git' = [git EXCEPT !.pc = "result", !.log = Append(@, "pop"),
                                     !.stack = @ - 1, !.changes = TRUE,
                                     !.restored = git.pushed]
            \/ git' = [git EXCEPT !.pc = "result", !.log = Append(@, "pop")]
            \/ git' = GitExcept([git EXCEPT !.log = Append(@, "pop")], "TimeoutExpired")
       ELSE git' = [git EXCEPT !.pc = "result"]
    /\ UNCHANGED <<eqVars, valVars, plVars, ode, dif, pde, reg>>

(* if result.returncode == 0: return True, ...; else return False, err *)
GitResult ==
    /\ git.pc = "result"
    /\ git' = IF git.pull_rc = 0
              THEN GitReturns(git, TRUE, "Update completed successfully.")
              ELSE GitReturns(git, FALSE, "Update failed.")
    /\ UNCHANGED <<eqVars, valVars, plVars, ode, dif, pde, reg>>

InitGitPull ==
    /\ \E is_repo \in BOOLEAN, locale \in {"en", "de"}, changes \in BOOLEAN,
          older \in 0..MaxStash :
          git = [pc |-> "start", is_repo |-> is_repo, locale |-> locale, changes |-> changes,
                 stack |-> older, pushed |-> FALSE, restored |-> FALSE,
                 stash_rc |-> -1, stash_out |-> "", pull_rc |-> -1, log |-> <<>>,
                 out |-> [success |-> FALSE, message |-> ""]]
    /\ ode = [pc |-> "idle"]
    /\ dif = [pc |-> "idle"]
    /\ pde = [pc |-> "idle"]
    /\ reg = [pc |-> "idle"]
    /\ args = NoCall
    /\ EqStart("idle")
    /\ ValIdle
    /\ PlIdle

NextGitPull == GitStart \/ GitStash \/ GitPull \/ GitPop \/ GitResult

SpecGitPull == InitGitPull /\ [][NextGitPull]_vars

(* C30: when perform_git_pull returns, and its stash step had saved local   *)
(* changes of input/ and output/, a stash pop was run after the pull,       *)
(* whatever the pull did (success, non-zero exit, timeout, another          *)
(* exception), and the saved changes are back in the working copy; when     *)
(* nothing was saved, no pop was run.                                       *)
C30_StashPopped ==
    git.pc = "done" =>
        /\ git.pushed =>
              /\ \E i \in DOMAIN git.log : \E j \in DOMAIN git.log :
                    i < j /\ git.log[i] = "pull" /\ git.log[j] = "pop"
              /\ git.restored
        /\ ~git.pushed => "pop" \notin Range(git.log)

=============================================================================
